---- MODULE Spec2Model ----
(***************************************************************************)
(* CamPass: passcode-gated camera shares served under /campass/{slug}.     *)
(* The module models the token service, the access gate of every view in   *)
(* views.py, the entry setup/unload of __init__.py, the switch of          *)
(* switch.py and the server-sent-events loop.                              *)
(*                                                                         *)
(* Time is counted in ticks; TicksPerSec ticks make one second, so that    *)
(* the whole-second encoding of a token's expiry is visible.               *)
(***************************************************************************)
EXTENDS Integers, Sequences, FiniteSets, TLC

VARIABLES
    now,            \* wall clock, in ticks
    config_entries, \* hass.config_entries.async_entries(DOMAIN): the entries, in order
    entry_state,    \* entry_id -> how far the entry's setup has got
    hass_data,      \* hass.data[DOMAIN]: entry_id -> {} or {jwt_secret}
    states,         \* hass.states: entity_id -> {} (no state) or {state string}
    jar,            \* credentials issued so far, each with its issuance facts
    last,           \* the exchange answered by the most recent step
    checked,        \* the most recent direct verify_jwt_token call and its result
    sse,            \* the event-stream connection: the handler's position and locals
    frame,          \* the frame-proxy connection: the handler's position and locals
    revoked,        \* the credentials whose share was unloaded after they were issued
    http,           \* hass.http: the views registered, and the flag that says so
    flows           \* the config flows in progress: flow id -> step and data

vars == <<now, config_entries, entry_state, hass_data, states, jar, last, checked, sse,
          frame, revoked, http, flows>>

----------------------------------------------------------------------------
\* Bounds of the model.

\* clock resolution: ticks per second
TicksPerSec == 2
\* the clock is stepped tick by tick up to this instant, and jumped afterwards
MaxStartTick == 3
\* number of credentials issued in one behaviour
MaxIssued == 1
\* ticks looked at on either side of a credential's expiry instant
Window == 2
\* writes made on one event-stream connection
MaxWrites == 3
\* image fetches of one frame-proxy connection
MaxFetches == 2

----------------------------------------------------------------------------
\* const.py

H1 == 3600
H24 == 86400
D7 == 604800
D30 == 2592000
Y1 == 31536000

\* None, as the set with no element; a present value v is {v}
None == {}

\* SESSION_DURATIONS, second component (seconds, or None)
SESSION_DURATIONS ==
    [k \in {"1h", "24h", "7d", "30d", "1y", "never"} |->
        CASE k = "1h" -> {H1}
          [] k = "24h" -> {H24}
          [] k = "7d" -> {D7}
          [] k = "30d" -> {D30}
          [] k = "1y" -> {Y1}
          [] OTHER -> None]

DurationKeys == DOMAIN SESSION_DURATIONS

----------------------------------------------------------------------------
\* Token service (views.py, over PyJWT's HS256 encode/decode)

Slugs == {"garage", "office"}
\* outcomes of secrets.token_urlsafe(32) that the model distinguishes
Secrets == {"k1", "k2"}
\* a key no share holds
AttackerKey == "kx"

\* A serialized token.  fmt "jwt" is a well-formed three-part token whose
\* header names alg, whose payload holds slug (a set: {} when the payload has
\* no slug) and exp (a set of whole seconds: {} when the payload has no exp)
\* and whose signature was made with key.  fmt "malformed" is any string that
\* does not parse; fmt "empty" is the empty string; fmt "none" is Python None.
Tok(fmt, alg, slug, exp, key) ==
    [fmt |-> fmt, alg |-> alg, slug |-> slug, exp |-> exp, key |-> key]

NoneToken == Tok("none", "", {}, {}, "")
EmptyToken == Tok("empty", "", {}, {}, "")
MalformedToken == Tok("malformed", "", {}, {}, "")

\* jwt.encode's conversion of a datetime claim: timegm(utctimetuple()), whole
\* seconds, the fraction dropped
timegm(ticks) == ticks \div TicksPerSec

\* create_jwt_token that leaves the duration out of the expiry
create_jwt_token_nodelta(slug, secret, duration_seconds, t) ==
    Tok("jwt", "HS256", {slug},
        IF duration_seconds = None THEN None ELSE {timegm(t)},
        secret)

\* create_jwt_token(slug, secret, duration_seconds) called at instant t (ticks)
create_jwt_token(slug, secret, duration_seconds, t) ==
    Tok("jwt", "HS256", {slug},
        IF duration_seconds = None
            THEN None
            ELSE {timegm(t + TicksPerSec * d) : d \in duration_seconds},
        secret)

\* jwt.decode(token, secret, algorithms=["HS256"]) at instant t: the name of
\* the exception it raises, or "ok"
jwt_decode(token, secret, t) ==
    IF token.fmt # "jwt" THEN "DecodeError"
    ELSE IF token.alg # "HS256" THEN "InvalidAlgorithmError"
    ELSE IF token.key # secret THEN "InvalidSignatureError"
    ELSE IF \E e \in token.exp : e * TicksPerSec <= t THEN "ExpiredSignatureError"
    ELSE "ok"

\* verify_jwt_token without the comparison of the payload's slug
verify_jwt_token_noslug(token, slug, secret, t) ==
    jwt_decode(token, secret, t) = "ok"

\* verify_jwt_token whose decode allows one second of leeway
verify_jwt_token_leeway(token, slug, secret, t) ==
    /\ token.fmt = "jwt" /\ token.alg = "HS256" /\ token.key = secret
    /\ ~ \E e \in token.exp : (e + 1) * TicksPerSec <= t
    /\ token.slug = {slug}

\* verify_jwt_token(token, slug, secret) called at instant t
verify_jwt_token(token, slug, secret, t) ==
    IF jwt_decode(token, secret, t) = "ok"
        THEN token.slug = {slug}
        ELSE FALSE

----------------------------------------------------------------------------
\* The event-stream connection of CamPassEventsView.get

\* no connection: the handler has not been entered. peer tells whether the
\* client still holds the connection, unsubs counts the calls of unsub(), and
\* exit is how the handler left ("returned" or "raised")
NoConnection ==
    [pc |-> "none", switch_id |-> "", available |-> FALSE, state_data |-> FALSE,
     change_event |-> FALSE, subscribed |-> FALSE, out |-> <<>>,
     peer |-> "open", unsubs |-> 0, exit |-> ""]

\* a finally clause that does not call unsub()
finally_unsub_skipped(conn, how) ==
    [conn EXCEPT !.pc = "closed", !.exit = how]

\* lines 282-287: whatever ended the loop, the finally clause calls unsub()
\* and the handler returns or lets the exception through
finally_unsub(conn, how) ==
    [conn EXCEPT !.pc = "closed", !.exit = how, !.subscribed = FALSE,
                 !.unsubs = @ + 1]

\* an on_state_change that stores the value and does not set the event
on_state_change_unsignalled(conn, new_state) ==
    IF new_state # None
        THEN [conn EXCEPT !.state_data = (new_state = {"on"})]
        ELSE conn

\* on_state_change(ev), with new_state = ev.data.get("new_state")
on_state_change(conn, new_state) ==
    IF new_state # None
        THEN [conn EXCEPT !.state_data = (new_state = {"on"}), !.change_event = TRUE]
        ELSE conn

\* async_track_state_change_event(hass, [switch_id], on_state_change): the
\* connection after entity_id's state went from old_state to new_state
state_changed(conn, entity_id, old_state, new_state) ==
    IF conn.subscribed /\ conn.switch_id = entity_id /\ old_state # new_state
        THEN on_state_change(conn, new_state)
        ELSE conn

----------------------------------------------------------------------------
\* The frame-proxy connection of CamPassStreamView.get

\* no connection: the handler has not been entered. native is what the
\* camera's own handler did, starts counts the response starts (status line
\* and headers) written on the connection, prepared tells that the proxy's own
\* multipart response was started, fetches is the log of async_get_image
\* calls, parts the fetches whose image was written as a part, eofs counts the
\* calls of write_eof()
NoStream ==
    [pc |-> "none", native |-> "", starts |-> 0, prepared |-> FALSE,
     fetches |-> <<>>, parts |-> <<>>, eofs |-> 0, peer |-> "open", exit |-> ""]

\* a finally clause that does not call write_eof()
write_eof_skipped(fr, how) ==
    [fr EXCEPT !.pc = "closed", !.exit = how]

\* lines 383-388: whatever ended the loop, the finally clause calls
\* response.write_eof(), which raises on a connection the peer has closed
write_eof(fr, how) ==
    [fr EXCEPT !.pc = "closed", !.eofs = @ + 1,
               !.exit = IF fr.peer = "closed" THEN "raised" ELSE how]

\* a loop that goes on to the next round after a failed fetch
fetch_failed_retry(fr) ==
    [fr EXCEPT !.fetches = Append(@, "failed"), !.pc = "sleeping"]

\* lines 379-381: async_get_image raises; the error is logged and the loop is
\* left with break
fetch_failed(fr) ==
    write_eof([fr EXCEPT !.fetches = Append(@, "failed")], "returned")

----------------------------------------------------------------------------
\* hass.http and the secrets of unloaded entries

\* the views of views.py, by the last part of their name
HTTP_SURFACE ==
    {"redirect", "pin", "viewer", "auth", "status", "events", "stream_info", "stream"}

\* nothing is registered
NoViews == [views_registered |-> FALSE, views |-> <<>>]

\* async_setup_entry, lines 38-46: the views are registered unless the flag
\* is set
register_views(h) ==
    IF ~h.views_registered
        THEN [views_registered |-> TRUE,
              views |-> h.views \o <<"pin", "viewer", "auth", "status", "stream">>]
        ELSE h

----------------------------------------------------------------------------
\* The config flows

FlowIds == {"f1", "f2"}

\* a flow that has not been started
NoFlow == [step |-> "none", data |-> {}]

NoFlows == [f \in FlowIds |-> NoFlow]

----------------------------------------------------------------------------
\* Token service on its own: credentials are issued and verified directly.

NoCheck == [token |-> NoneToken, slug |-> "", secret |-> "", at |-> 0, ok |-> FALSE,
            issued_at |-> 0, ttl |-> None, for_slug |-> "", for_secret |-> ""]

\* the expiry instants (in ticks) of the credentials issued so far
ExpiryTicks == {e * TicksPerSec : e \in UNION {j.token.exp : j \in jar}}

\* instants the clock may be moved to
Instants ==
    (0 .. MaxStartTick)
        \cup UNION {(x - Window) .. (x + Window + TicksPerSec) : x \in ExpiryTicks}

TokenInit ==
    /\ now = 0
    /\ config_entries = <<>>
    /\ entry_state = <<>>
    /\ hass_data = <<>>
    /\ states = <<>>
    /\ jar = {}
    /\ last = <<>>
    /\ checked = NoCheck
    /\ sse = NoConnection
    /\ frame = NoStream
    /\ revoked = {}
    /\ http = NoViews
    /\ flows = NoFlows

\* time passes
TokenAdvance ==
    /\ \E t \in Instants : t > now /\ now' = t
    /\ UNCHANGED <<config_entries, entry_state, hass_data, states, jar, last, checked, sse, frame, revoked, http, flows>>

\* issue(slug, secret, ttl): the credential the behaviour goes on to verify
TokenIssue ==
    /\ jar = {}
    /\ \E slug \in Slugs, secret \in Secrets, k \in DurationKeys :
        jar' = jar \cup
            {[token |-> create_jwt_token(slug, secret, SESSION_DURATIONS[k], now),
              slug |-> slug, secret |-> secret, at |-> now,
              ttl |-> SESSION_DURATIONS[k]]}
    /\ UNCHANGED <<now, config_entries, entry_state, hass_data, states, last, checked, sse, frame, revoked, http, flows>>

\* verify(credential, slug, secret) of an issued credential
TokenVerify ==
    /\ \E j \in jar, slug \in Slugs, secret \in Secrets :
        checked' = [token |-> j.token, slug |-> slug, secret |-> secret, at |-> now,
                    ok |-> verify_jwt_token(j.token, slug, secret, now),
                    issued_at |-> j.at, ttl |-> j.ttl,
                    for_slug |-> j.slug, for_secret |-> j.secret]
    /\ UNCHANGED <<now, config_entries, entry_state, hass_data, states, jar, last, sse, frame, revoked, http, flows>>

TokenNext == TokenAdvance \/ TokenIssue \/ TokenVerify

SpecToken == TokenInit /\ [][TokenNext]_vars

----------------------------------------------------------------------------
\* Claims about the token service (checked under SpecToken)

\* a direct verification of an issued credential against its own share
OwnCheck ==
    /\ checked.token.fmt = "jwt"
    /\ checked.slug = checked.for_slug
    /\ checked.secret = checked.for_secret

\* the credential's life has not elapsed at the check: T + t is still ahead
NotElapsed ==
    \/ checked.ttl = None
    \/ \E d \in checked.ttl : checked.at < checked.issued_at + TicksPerSec * d

\* the check is made before the whole second of issuance plus the ttl
BeforeEncodedExpiry ==
    \/ checked.ttl = None
    \/ \E d \in checked.ttl :
        checked.at < TicksPerSec * ((checked.issued_at \div TicksPerSec) + d)

\* C3 as stated: a credential verifies for its own share right after issuance
\* and at any later time while its ttl is "never" or has not yet elapsed.
C3_VerifiesUntilTtlElapsed ==
    (OwnCheck /\ NotElapsed) => checked.ok

\* C3 amended: a credential verifies for its own share right after issuance,
\* and at any later time when its ttl is "never" or the check is made before
\* the issuance time truncated to whole seconds plus the ttl.
C3_VerifiesUntilEncodedExpiry ==
    /\ (OwnCheck /\ checked.at = checked.issued_at) => checked.ok
    /\ (OwnCheck /\ BeforeEncodedExpiry) => checked.ok

\* C3 witness: a credential with a finite ttl verified at a later time,
\* in the last second of its life
C3_Witness ==
    /\ OwnCheck /\ checked.ok
    /\ checked.at > checked.issued_at
    /\ \E d \in checked.ttl :
        checked.at + TicksPerSec >= checked.issued_at + TicksPerSec * d

\* C4 as stated: with a finite ttl t, verify is true at every instant strictly
\* before T + t and false at every instant strictly after T + t.
C4_ExactExpiry ==
    \A d \in checked.ttl :
        OwnCheck =>
            /\ (checked.at < checked.issued_at + TicksPerSec * d) => checked.ok
            /\ (checked.at > checked.issued_at + TicksPerSec * d) => ~checked.ok

\* C4 amended: with a finite ttl t, verify is true at every instant strictly
\* before floor(T) + t and false at every instant at or after floor(T) + t
\* (so also at every instant after T + t): the expiry is T + t rounded down to
\* the whole second, with no leeway.
C4_ExpiryAtWholeSecond ==
    \A d \in checked.ttl :
        LET expiry == TicksPerSec * ((checked.issued_at \div TicksPerSec) + d)
        IN  OwnCheck => (checked.ok <=> checked.at < expiry)

\* C4 witness: a credential issued at a fractional second is refused at a
\* check made before T + t
C4_Witness ==
    /\ OwnCheck /\ ~checked.ok
    /\ checked.issued_at % TicksPerSec # 0
    /\ \E d \in checked.ttl : checked.at < checked.issued_at + TicksPerSec * d

----------------------------------------------------------------------------
\* Share registry and enablement (views.py, switch.py, __init__.py)

EntryIds == {"e1", "e2"}
CameraIds == {"camera.garage", "camera.basement"}
\* camera ids a request may name: the camera entities and one that is none
RequestCameraIds == CameraIds \cup {"camera.attic"}
\* slugs a request may name: the shares' and one that is none
RequestSlugs == Slugs \cup {"nosuch"}

\* f"switch.campass_{slug}"
SwitchEntityIds ==
    [s \in Slugs |->
        CASE s = "garage" -> "switch.campass_garage"
          [] s = "office" -> "switch.campass_office"]

\* state.attributes.get("friendly_name"): {} when the attribute is missing
friendly_name ==
    [c \in CameraIds |-> IF c = "camera.garage" THEN {"Garage"} ELSE {}]

\* hass.states.get(entity_id): {} is None
states_get(entity_id) ==
    IF entity_id \in DOMAIN states THEN states[entity_id] ELSE None

\* indexes of the entries whose data has the slug, in list order
SlugMatches(slug) ==
    {i \in 1 .. Len(config_entries) : config_entries[i].slug = slug}

\* get_entry_by_slug(hass, slug): {} is None, else the first entry with the slug
get_entry_by_slug(slug) ==
    IF SlugMatches(slug) = {}
        THEN None
        ELSE {config_entries[CHOOSE i \in SlugMatches(slug) :
                                \A j \in SlugMatches(slug) : i <= j]}

\* get_switch_entity_id(entry)
get_switch_entity_id(entry) == SwitchEntityIds[entry.slug]

\* is_sharing_enabled that takes any state but "off" for enabled
is_sharing_enabled_unless_off(entry) ==
    states_get(get_switch_entity_id(entry)) # {"off"}

\* is_sharing_enabled that takes a toggle without a state for enabled
is_sharing_enabled_failopen(entry) ==
    states_get(get_switch_entity_id(entry)) \in {None, {"on"}}

\* is_sharing_enabled(hass, entry)
is_sharing_enabled(entry) ==
    LET state == states_get(get_switch_entity_id(entry))
    IN  state # None /\ state = {"on"}

\* hass.data.get(DOMAIN, {}).get(entry.entry_id): {} when missing or without
\* "jwt_secret", else {secret}
entry_data(entry) ==
    IF entry.entry_id \in DOMAIN hass_data THEN hass_data[entry.entry_id] ELSE {}

\* the allowed cameras taken to be every camera entity
allowed_cameras_any(entry) == CameraIds

\* the entry's data["cameras"] as a set
allowed_cameras(entry) == {entry.cameras[i] : i \in 1 .. Len(entry.cameras)}

----------------------------------------------------------------------------
\* Responses

BlankResp ==
    [status |-> 0, ctype |-> "", body |-> "", location |-> "", cookie |-> {},
     available |-> FALSE, cameras |-> <<>>, type |-> "", url |-> <<>>]

\* web.json_response({"error": msg}, status=status)
json_error(status, msg) ==
    [BlankResp EXCEPT !.status = status, !.ctype = "json", !.body = msg]

\* web.Response(text=msg, status=status)
text_response(status, msg) ==
    [BlankResp EXCEPT !.status = status, !.ctype = "text", !.body = msg]

\* raise web.HTTPFound(f"/campass/{slug}/")
HTTPFound(slug) ==
    [BlankResp EXCEPT !.status = 302, !.ctype = "redirect", !.location = slug]

\* an exception no handler catches: the server answers 500 on its own
unhandled(exc) ==
    [BlankResp EXCEPT !.status = 500, !.ctype = "exception", !.body = exc]

\* _serve_html(filename, ...)
_serve_html(filename) ==
    [BlankResp EXCEPT !.status = 200, !.ctype = "html", !.body = filename]

----------------------------------------------------------------------------
\* Access gate helpers

\* request.cookies.get(f"campass_{slug}"): cookies maps the slug of a cookie's
\* name to its value
cookies_get(cookies, slug) ==
    IF slug \in DOMAIN cookies THEN cookies[slug] ELSE NoneToken

\* _get_entry_and_verify(hass, slug): (entry, error_response)
_get_entry_and_verify(slug) ==
    LET entry == get_entry_by_slug(slug)
    IN  IF entry = None
            THEN [entry |-> None, err |-> {json_error(404, "Share not found")}]
        ELSE IF \E en \in entry : entry_data(en) = {}
            THEN [entry |-> None, err |-> {json_error(500, "Not configured")}]
        ELSE [entry |-> entry, err |-> None]

\* _verify_cookie that lets the expiry error of jwt.decode through
_verify_cookie_expiry_raises(cookies, slug, entry) ==
    LET token == cookies_get(cookies, slug)
    IN  IF token.fmt \in {"none", "empty"} THEN "False"
        ELSE IF entry_data(entry) = {} THEN "KeyError"
        ELSE IF \E secret \in entry_data(entry) :
                    jwt_decode(token, secret, now) = "ExpiredSignatureError"
            THEN "ExpiredSignatureError"
        ELSE IF \E secret \in entry_data(entry) :
                    verify_jwt_token(token, slug, secret, now)
            THEN "True"
        ELSE "False"

\* _verify_cookie(request, slug, entry, hass): "True" or "False", or the name of
\* the exception it raises ("KeyError" when the entry has no jwt_secret to read)
_verify_cookie(cookies, slug, entry) ==
    LET token == cookies_get(cookies, slug)
    IN  IF token.fmt \in {"none", "empty"} THEN "False"
        ELSE IF entry_data(entry) = {} THEN "KeyError"
        ELSE IF \E secret \in entry_data(entry) :
                    verify_jwt_token(token, slug, secret, now)
            THEN "True"
        ELSE "False"

----------------------------------------------------------------------------
\* The views (views.py), each as the response its handler computes from the
\* request and the state it reads

\* CamPassViewerView.get
CamPassViewerView_get(slug, cookies) ==
    LET entry == get_entry_by_slug(slug)
    IN  IF entry = None THEN text_response(404, "Share not found")
        ELSE LET en == CHOOSE x \in entry : TRUE
                 ok == _verify_cookie(cookies, slug, en)
             IN  IF ok \notin {"True", "False"} THEN unhandled(ok)
                 ELSE IF ok = "False" THEN HTTPFound(slug)
                 ELSE _serve_html("viewer.html")

\* the cameras list without the check that the camera has a state
status_cameras_all(cameras) ==
    [i \in 1 .. Len(cameras) |-> [entity_id |-> cameras[i], name |-> cameras[i]]]

\* the cameras list of the status response: one item per camera of the entry
\* that has a state, in the entry's order
status_cameras(cameras) ==
    LET present == SelectSeq(cameras, LAMBDA c : states_get(c) # None)
    IN  [i \in 1 .. Len(present) |->
            [entity_id |-> present[i],
             name |-> IF present[i] \in DOMAIN friendly_name
                         /\ friendly_name[present[i]] # {}
                        THEN CHOOSE n \in friendly_name[present[i]] : TRUE
                        ELSE present[i]]]

\* CamPassStatusView.get
CamPassStatusView_get(slug, cookies) ==
    LET gate == _get_entry_and_verify(slug)
    IN  IF gate.err # None THEN CHOOSE r \in gate.err : TRUE
        ELSE LET en == CHOOSE x \in gate.entry : TRUE
                 ok == _verify_cookie(cookies, slug, en)
             IN  IF ok \notin {"True", "False"} THEN unhandled(ok)
                 ELSE IF ok = "False" THEN json_error(401, "Unauthorized")
                 ELSE [BlankResp EXCEPT
                         !.status = 200, !.ctype = "json",
                         !.available = is_sharing_enabled(en),
                         !.cameras = status_cameras(en.cameras)]

\* CamPassEventsView.get, up to the start of the event stream
CamPassEventsView_get(slug, cookies) ==
    LET gate == _get_entry_and_verify(slug)
    IN  IF gate.err # None THEN CHOOSE r \in gate.err : TRUE
        ELSE LET en == CHOOSE x \in gate.entry : TRUE
                 ok == _verify_cookie(cookies, slug, en)
             IN  IF ok \notin {"True", "False"} THEN unhandled(ok)
                 ELSE IF ok = "False" THEN text_response(401, "Unauthorized")
                 ELSE [BlankResp EXCEPT !.status = 200, !.ctype = "text/event-stream"]

\* what the HLS path of lines 313-322 meets: every step works ("ok"), there
\* is no camera entity, async_create_stream returns None, or one of the steps
\* raises
HlsOutcomes ==
    {"ok", "no_camera", "no_stream", "create_raises", "add_provider_raises",
     "start_raises", "endpoint_url_raises"}

\* the outcomes in which a step raises
HlsRaises ==
    {"create_raises", "add_provider_raises", "start_raises", "endpoint_url_raises"}

\* lines 313-330 without the except clause: an exception of the HLS path
\* leaves the handler
negotiate_surfacing(slug, camera_id, hls) ==
    IF hls = "ok"
        THEN [BlankResp EXCEPT !.status = 200, !.ctype = "json",
                !.type = "hls", !.url = <<"hls", camera_id>>]
    ELSE IF hls \in HlsRaises THEN unhandled("Exception")
    ELSE [BlankResp EXCEPT !.status = 200, !.ctype = "json", !.type = "mjpeg",
                !.url = <<"campass", slug, "api", "stream", camera_id>>]

\* lines 313-330: the HLS descriptor when every step of the HLS path worked
\* (stream.endpoint_url("hls")), else the descriptor of this integration's
\* own stream endpoint for the slug and the camera
negotiate(slug, camera_id, hls) ==
    IF hls = "ok"
        THEN [BlankResp EXCEPT !.status = 200, !.ctype = "json",
                !.type = "hls", !.url = <<"hls", camera_id>>]
        ELSE [BlankResp EXCEPT !.status = 200, !.ctype = "json", !.type = "mjpeg",
                !.url = <<"campass", slug, "api", "stream", camera_id>>]

\* CamPassStreamInfoView.get, lines 299-311: None when the request may go on
\* to the negotiation, else the response that refuses it
stream_info_gate(slug, camera_id, cookies) ==
    LET gate == _get_entry_and_verify(slug)
    IN  IF gate.err # None THEN gate.err
        ELSE LET en == CHOOSE x \in gate.entry : TRUE
                 ok == _verify_cookie(cookies, slug, en)
             IN  IF ok \notin {"True", "False"} THEN {unhandled(ok)}
                 ELSE IF ok = "False" THEN {json_error(401, "Unauthorized")}
                 ELSE IF ~is_sharing_enabled(en)
                    THEN {json_error(403, "Sharing is disabled")}
                 ELSE IF camera_id \notin allowed_cameras(en)
                    THEN {json_error(403, "Camera not allowed")}
                 ELSE None

\* CamPassStreamInfoView.get; hls is what the HLS path meets
CamPassStreamInfoView_get(slug, camera_id, cookies, hls) ==
    LET refused == stream_info_gate(slug, camera_id, cookies)
    IN  IF refused # None THEN CHOOSE r \in refused : TRUE
        ELSE negotiate(slug, camera_id, hls)

\* CamPassStreamView.get, up to the start of the frame stream
CamPassStreamView_get(slug, camera_id, cookies) ==
    LET gate == _get_entry_and_verify(slug)
    IN  IF gate.err # None THEN text_response(404, "Share not found")
        ELSE LET en == CHOOSE x \in gate.entry : TRUE
                 ok == _verify_cookie(cookies, slug, en)
             IN  IF ok \notin {"True", "False"} THEN unhandled(ok)
                 ELSE IF ok = "False" THEN text_response(401, "Unauthorized")
                 ELSE IF ~is_sharing_enabled(en)
                    THEN text_response(403, "Sharing is disabled")
                 ELSE IF camera_id \notin allowed_cameras(en)
                    THEN text_response(403, "Camera not allowed")
                 ELSE [BlankResp EXCEPT !.status = 200,
                            !.ctype = "multipart/x-mixed-replace"]

\* a request body: json is "invalid" (not JSON), "other" (JSON, not an object)
\* or "object" with the fields pin and passcode, each {} when missing
Body(json, pin, passcode) == [json |-> json, pin |-> pin, passcode |-> passcode]

NoBody == Body("invalid", {}, {})

\* entry.data.get("passcode", entry.data.get("pin", ""))
stored_passcode(entry) == entry.passcode

\* a lookup that gives every share the default of 24 hours
duration_seconds_of_default(entry) == {H24}

\* SESSION_DURATIONS.get(entry.data.get(CONF_SESSION_DURATION, "24h"),
\*                       ("24 hours", 86400))[1]
duration_seconds_of(entry) ==
    LET duration_key ==
            IF entry.session_duration = {} THEN "24h"
            ELSE CHOOSE k \in entry.session_duration : TRUE
    IN  IF duration_key \in DOMAIN SESSION_DURATIONS
            THEN SESSION_DURATIONS[duration_key]
            ELSE {H24}

\* the max-age of a cookie that never expires
NEVER_MAX_AGE == 315360000

\* data.get("pin", "")
body_pin(body) == IF body.pin = {} THEN "" ELSE CHOOSE v \in body.pin : TRUE

\* CamPassAuthView.post that reads the body's "passcode" field
auth_finish_passcode_field(entry, slug, body, secure) ==
    IF body.json = "object" /\ body.passcode = {stored_passcode(entry)}
            /\ entry_data(entry) # {}
        THEN [resp |-> [BlankResp EXCEPT !.status = 200, !.ctype = "json",
                            !.body = "success"],
              issued |-> {}]
        ELSE [resp |-> json_error(401, "Invalid PIN"), issued |-> {}]

\* CamPassAuthView.post from the point where the body has been read: the
\* response and the credentials it created
auth_finish(entry, slug, body, secure) ==
    IF body.json # "object"
        THEN [resp |-> json_error(400, "Invalid request"), issued |-> {}]
    ELSE IF body_pin(body) = stored_passcode(entry)
        THEN IF entry_data(entry) = {}
                THEN [resp |-> unhandled("KeyError"), issued |-> {}]
                ELSE LET secret == CHOOSE k \in entry_data(entry) : TRUE
                         duration_seconds == duration_seconds_of(entry)
                         token == create_jwt_token(slug, secret, duration_seconds, now)
                         max_age == IF duration_seconds # None
                                        THEN duration_seconds
                                        ELSE {NEVER_MAX_AGE}
                     IN  [resp |-> [BlankResp EXCEPT
                                      !.status = 200, !.ctype = "json",
                                      !.body = "success",
                                      !.cookie = {[name |-> slug, token |-> token,
                                                   max_age |-> max_age,
                                                   httponly |-> TRUE,
                                                   samesite |-> "Lax",
                                                   secure |-> secure]}],
                          issued |-> {[token |-> token, slug |-> slug,
                                       secret |-> secret, at |-> now,
                                       ttl |-> duration_seconds]}]
    ELSE [resp |-> json_error(401, "Invalid PIN"), issued |-> {}]

----------------------------------------------------------------------------
\* Exchanges: a request, what the handler has done with it, and the response

Exch(endpoint, phase, slug, camera_id, cookies, body, secure, entry, resp, issued) ==
    [endpoint |-> endpoint, phase |-> phase, slug |-> slug, camera_id |-> camera_id,
     cookies |-> cookies, body |-> body, secure |-> secure, entry |-> entry,
     resp |-> resp, issued |-> issued, upstream |-> ""]

NoCookies == [n \in Slugs |-> NoneToken]

NoExchange == Exch("none", "none", "", "", NoCookies, NoBody, FALSE, {}, BlankResp, {})

\* tokens a client can put in the cookie named for slug n: none, the empty
\* string, garbage, tokens it signed itself, and any credential issued so far
Presentable(n) ==
    {NoneToken, EmptyToken, MalformedToken,
     Tok("jwt", "HS256", {n}, None, AttackerKey),
     Tok("jwt", "none", {n}, None, "")}
        \cup {j.token : j \in jar}

\* the cookie jars a request may carry: at most one campass cookie
RequestCookies ==
    UNION {{[n \in Slugs |-> IF n = name THEN t ELSE NoneToken] :
                t \in Presentable(name)} : name \in Slugs}

RequestBodies ==
    {Body("invalid", {}, {}), Body("other", {}, {})}
        \cup {Body("object", p, {}) : p \in {{}, {""}, {"4821"}, {"9999"}}}
        \cup {Body("object", {}, {q}) : q \in {"4821", "9999"}}

\* no response is waiting to be written out: the event loop runs one callback
\* at a time, and a handler's response leaves with the step that computed it
NoResponsePending == last.phase # "done"

----------------------------------------------------------------------------
\* The gate at work: entries are set up and unloaded, toggles and cameras
\* change state, time passes, and requests are answered.

Entry(entry_id, slug, name, passcode, cameras, session_duration) ==
    [entry_id |-> entry_id, slug |-> slug, name |-> name, passcode |-> passcode,
     cameras |-> cameras, session_duration |-> session_duration]

\* the entry with the id, as it is now
entry_by_id(entry_id) ==
    config_entries[CHOOSE i \in 1 .. Len(config_entries) :
                        config_entries[i].entry_id = entry_id]

\* hass.states.async_set(entity_id, new_state), or async_remove when new_state
\* is None: the state is written and the listeners tracking the entity are run
write_state(entity_id, new_state) ==
    /\ states' = [states EXCEPT ![entity_id] = new_state]
    /\ sse' = state_changed(sse, entity_id, states[entity_id], new_state)

GateInit ==
    /\ now = 0
    /\ config_entries =
        << Entry("e1", "garage", "Garage", "4821", <<"camera.garage">>, {}),
           Entry("e2", "office", "Office", "9999",
                 <<"camera.basement", "camera.garage">>, {"never"}) >>
    /\ entry_state = [e \in EntryIds |-> "not_loaded"]
    /\ hass_data = [e \in EntryIds |-> {}]
    /\ states = [x \in {SwitchEntityIds[sl] : sl \in Slugs} \cup CameraIds |->
                    IF x \in CameraIds THEN {"idle"} ELSE None]
    /\ jar = {}
    /\ last = NoExchange
    /\ checked = NoCheck
    /\ sse = NoConnection
    /\ frame = NoStream
    /\ revoked = {}
    /\ http = NoViews
    /\ flows = NoFlows

\* the slug of the entry with this id
slug_of(e) == entry_by_id(e).slug

\* secrets.token_urlsafe(32): 256 random bits, so a draw repeats no earlier
\* one. Of the earlier draws the model keeps those that matter: an entry never
\* draws again a value that signed a credential of its share. (Two entries may
\* draw the same value: nothing rests on secrets differing between shares.)
token_urlsafe(e) == Secrets \ {j.secret : j \in {x \in revoked : x.slug = slug_of(e)}}

\* async_setup_entry up to the await of the platform setup: a secret is
\* generated unless the entry has one, the views are registered unless the
\* flag is set
SetupEntry ==
    /\ NoResponsePending
    /\ \E e \in EntryIds :
        /\ entry_state[e] = "not_loaded"
        /\ IF hass_data[e] = {}
                THEN \E secret \in token_urlsafe(e) :
                        hass_data' = [hass_data EXCEPT ![e] = {secret}]
                ELSE UNCHANGED hass_data
        /\ entry_state' = [entry_state EXCEPT ![e] = "setup_in_progress"]
    /\ http' = register_views(http)
    /\ UNCHANGED <<now, config_entries, states, jar, last, checked, sse, frame, revoked, flows>>

\* async_forward_entry_setups raises: async_setup_entry fails, the entry is
\* not loaded and hass.data keeps what line 36 put there
SetupFails ==
    /\ NoResponsePending
    /\ \E e \in EntryIds :
        /\ entry_state[e] = "setup_in_progress"
        /\ entry_state' = [entry_state EXCEPT ![e] = "not_loaded"]
    /\ UNCHANGED <<now, config_entries, hass_data, states, jar, last, checked, sse,
                   frame, revoked, http, flows>>

\* switch.async_setup_entry: the switch entity is added and writes its state,
\* off; async_setup_entry returns
SwitchSetup ==
    /\ NoResponsePending
    /\ \E e \in EntryIds :
        /\ entry_state[e] = "setup_in_progress"
        /\ write_state(get_switch_entity_id(entry_by_id(e)), {"off"})
        /\ entry_state' = [entry_state EXCEPT ![e] = "loaded"]
    /\ UNCHANGED <<now, config_entries, hass_data, jar, last, checked, frame, revoked, http, flows>>

\* async_unload_entry that leaves the entry's data in hass.data
unload_data_kept(data, e) == data

\* hass.data[DOMAIN].pop(entry.entry_id, None)
unload_data(data, e) == [data EXCEPT ![e] = {}]

\* async_unload_entry: the platform is unloaded (the switch's state is
\* removed or left as unavailable) and the entry's data is popped
UnloadEntry ==
    /\ NoResponsePending
    /\ \E e \in EntryIds :
        /\ entry_state[e] = "loaded"
        /\ \E gone \in {None, {"unavailable"}} :
            write_state(get_switch_entity_id(entry_by_id(e)), gone)
        /\ hass_data' = unload_data(hass_data, e)
        /\ revoked' = revoked \cup {j \in jar : j.slug = slug_of(e)}
        /\ entry_state' = [entry_state EXCEPT ![e] = "not_loaded"]
    /\ UNCHANGED <<now, config_entries, jar, last, checked, frame, http, flows>>

\* CamPassSwitch.async_turn_on
TurnOn ==
    /\ NoResponsePending
    /\ \E e \in EntryIds :
        /\ entry_state[e] = "loaded"
        /\ write_state(get_switch_entity_id(entry_by_id(e)), {"on"})
    /\ UNCHANGED <<now, config_entries, entry_state, hass_data, jar, last, checked, frame, revoked, http, flows>>

\* CamPassSwitch.async_turn_off
TurnOff ==
    /\ NoResponsePending
    /\ \E e \in EntryIds :
        /\ entry_state[e] = "loaded"
        /\ write_state(get_switch_entity_id(entry_by_id(e)), {"off"})
    /\ UNCHANGED <<now, config_entries, entry_state, hass_data, jar, last, checked, frame, revoked, http, flows>>

\* a camera entity's state appears or goes away
CameraStateChange ==
    /\ NoResponsePending
    /\ \E c \in CameraIds, st \in {None, {"idle"}} :
        /\ states[c] # st
        /\ states' = [states EXCEPT ![c] = st]
    /\ UNCHANGED <<now, config_entries, entry_state, hass_data, jar, last, checked, sse, frame, revoked, http, flows>>

\* time passes, to the expiry instant of an issued credential
GateAdvance ==
    /\ NoResponsePending
    /\ \E t \in ExpiryTicks : t > now /\ now' = t
    /\ UNCHANGED <<config_entries, entry_state, hass_data, states, jar, last, checked, sse, frame, revoked, http, flows>>

\* GET /campass/{slug}/viewer
ViewerGet ==
    /\ last.phase = "none"
    /\ \E slug \in RequestSlugs, cookies \in RequestCookies :
        last' = Exch("viewer", "done", slug, "", cookies, NoBody, FALSE, {},
                     CamPassViewerView_get(slug, cookies), {})
    /\ UNCHANGED <<now, config_entries, entry_state, hass_data, states, jar, checked, sse, frame, revoked, http, flows>>

\* GET /campass/{slug}/api/status
StatusGet ==
    /\ last.phase = "none"
    /\ \E slug \in RequestSlugs, cookies \in RequestCookies :
        last' = Exch("status", "done", slug, "", cookies, NoBody, FALSE, {},
                     CamPassStatusView_get(slug, cookies), {})
    /\ UNCHANGED <<now, config_entries, entry_state, hass_data, states, jar, checked, sse, frame, revoked, http, flows>>

\* GET /campass/{slug}/api/events, up to the start of the event stream
EventsGet ==
    /\ last.phase = "none"
    /\ \E slug \in RequestSlugs, cookies \in RequestCookies :
        last' = Exch("events", "done", slug, "", cookies, NoBody, FALSE, {},
                     CamPassEventsView_get(slug, cookies), {})
    /\ UNCHANGED <<now, config_entries, entry_state, hass_data, states, jar, checked, sse, frame, revoked, http, flows>>

\* GET /campass/{slug}/api/stream-info/{camera_id}; the HLS path is met only
\* by a request that gets as far as the negotiation
StreamInfoGet ==
    /\ last.phase = "none"
    /\ \E slug \in RequestSlugs, camera_id \in RequestCameraIds,
          cookies \in RequestCookies :
        \E hls \in IF stream_info_gate(slug, camera_id, cookies) = None
                        THEN HlsOutcomes ELSE {""} :
            last' = [Exch("stream-info", "done", slug, camera_id, cookies, NoBody,
                          FALSE, {},
                          CamPassStreamInfoView_get(slug, camera_id, cookies, hls), {})
                        EXCEPT !.upstream = hls]
    /\ UNCHANGED <<now, config_entries, entry_state, hass_data, states, jar, checked, sse, frame, revoked, http, flows>>

\* GET /campass/{slug}/api/stream/{camera_id}, up to the start of the stream
StreamGet ==
    /\ last.phase = "none"
    /\ \E slug \in RequestSlugs, camera_id \in RequestCameraIds,
          cookies \in RequestCookies :
        last' = Exch("stream", "done", slug, camera_id, cookies, NoBody, FALSE, {},
                     CamPassStreamView_get(slug, camera_id, cookies), {})
    /\ UNCHANGED <<now, config_entries, entry_state, hass_data, states, jar, checked, sse, frame, revoked, http, flows>>

\* POST /campass/{slug}/api/auth: CamPassAuthView.post up to the await of the
\* request body
AuthPost ==
    /\ last.phase = "none"
    /\ Cardinality(jar) < MaxIssued
    /\ \E slug \in RequestSlugs, body \in RequestBodies, secure \in BOOLEAN :
        LET gate == _get_entry_and_verify(slug)
        IN  last' = IF gate.err # None
                        THEN Exch("auth", "done", slug, "", NoCookies, body, secure, {},
                                  CHOOSE r \in gate.err : TRUE, {})
                        ELSE Exch("auth", "reading_body", slug, "", NoCookies, body,
                                  secure, gate.entry, BlankResp, {})
    /\ UNCHANGED <<now, config_entries, entry_state, hass_data, states, jar, checked, sse, frame, revoked, http, flows>>

\* CamPassAuthView.post from the point where the body has been read
AuthBodyRead ==
    /\ last.phase = "reading_body"
    /\ LET held == CHOOSE x \in last.entry : TRUE
           out == auth_finish(entry_by_id(held.entry_id), last.slug, last.body,
                              last.secure)
       IN  /\ last' = [last EXCEPT !.phase = "done", !.resp = out.resp,
                                   !.issued = out.issued]
           /\ jar' = jar \cup out.issued
    /\ UNCHANGED <<now, config_entries, entry_state, hass_data, states, checked, sse, frame, revoked, http, flows>>

\* the response is written out and the exchange is over
Deliver ==
    /\ last.phase = "done"
    /\ last' = NoExchange
    /\ UNCHANGED <<now, config_entries, entry_state, hass_data, states, jar, checked, sse, frame, revoked, http, flows>>

GateNext ==
    \/ SetupEntry \/ SwitchSetup \/ UnloadEntry \/ TurnOn \/ TurnOff
    \/ CameraStateChange \/ GateAdvance
    \/ ViewerGet \/ StatusGet \/ EventsGet \/ StreamInfoGet \/ StreamGet
    \/ AuthPost \/ AuthBodyRead \/ Deliver

Spec == GateInit /\ [][GateNext]_vars

\* The life of the entries by itself: setups that succeed or fail, unloads,
\* and the passcode and status requests that issue and use credentials
LifecycleNext ==
    \/ SetupEntry \/ SetupFails \/ SwitchSetup \/ UnloadEntry \/ TurnOn
    \/ GateAdvance \/ AuthPost \/ AuthBodyRead \/ StatusGet \/ Deliver

SpecLifecycle == GateInit /\ [][LifecycleNext]_vars

----------------------------------------------------------------------------
\* Claims about the access gate (checked under Spec).  The facts a claim
\* speaks of are read from the state, not from the handlers' operators.

\* a handler has answered a request to the endpoint
Answered(endpoint) == last.phase = "done" /\ last.endpoint = endpoint

CookieGated == {"viewer", "status", "events", "stream-info", "stream"}
ApiEndpoints == {"status", "events", "stream-info", "stream"}
CameraEndpoints == {"stream-info", "stream"}

\* the shares the requested slug names
Shares == {config_entries[i] : i \in SlugMatches(last.slug)}

\* the share has a signing secret
Provisioned(en) == hass_data[en.entry_id] # {}

\* the credential presented for the requested slug
Presented == IF last.slug \in Slugs THEN last.cookies[last.slug] ELSE NoneToken

\* why the presented credential does not verify for the share, or "valid"
CredentialKind(en) ==
    IF Presented.fmt \in {"none", "empty"} THEN "no_cookie"
    ELSE IF Presented.fmt # "jwt" \/ Presented.alg # "HS256" THEN "malformed"
    ELSE IF Presented.key \notin hass_data[en.entry_id] THEN "bad_signature"
    ELSE IF \E e \in Presented.exp : e * TicksPerSec <= now THEN "expired"
    ELSE IF Presented.slug # {en.slug} THEN "wrong_slug"
    ELSE "valid"

\* the share's toggle is known to be on
ToggleOn(en) == states[SwitchEntityIds[en.slug]] = {"on"}

\* a frame stream was started or a delivery descriptor was returned
StreamGranted ==
    /\ last.phase = "done"
    /\ last.endpoint \in CameraEndpoints
    /\ last.resp.status = 200

\* C1: stream access (the frame stream or a delivery descriptor) is granted
\* only when the slug resolves to a share, the share has a signing secret, the
\* presented credential verifies for the slug, the toggle's state is known and
\* on, and the camera is one of the share's allowed cameras.
C1_GrantOnlyWhenAllHold ==
    StreamGranted =>
        \E en \in Shares :
            /\ Provisioned(en)
            /\ CredentialKind(en) = "valid"
            /\ ToggleOn(en)
            /\ \E i \in 1 .. Len(en.cameras) : en.cameras[i] = last.camera_id

\* C1 witness: a frame stream is granted
C1_Witness == StreamGranted /\ last.endpoint = "stream"

\* the request carries, in whichever cookie, only a credential issued for a
\* share other than the one requested
CarriesForeignCredential ==
    /\ \E n \in Slugs : last.cookies[n] # NoneToken
    /\ \A n \in Slugs :
        last.cookies[n] # NoneToken =>
            \E j \in jar : j.token = last.cookies[n] /\ j.slug # last.slug

\* C2: a credential issued for share S does not verify for any other share S',
\* and a request to a cookie-gated endpoint of S' that carries it (under S's
\* cookie name or under S') is never answered 200; on an API endpoint of a
\* share with a secret it is answered 401.
C2_NoCrossShareCredential ==
    /\ \A j \in jar : \A i \in 1 .. Len(config_entries) :
            LET en == config_entries[i]
            IN  (en.slug # j.slug /\ Provisioned(en)) =>
                    \A secret \in hass_data[en.entry_id] :
                        ~verify_jwt_token(j.token, en.slug, secret, now)
    /\ (last.phase = "done" /\ last.endpoint \in CookieGated
            /\ Shares # {} /\ CarriesForeignCredential) =>
            /\ last.resp.status # 200
            /\ \A en \in Shares :
                (Provisioned(en) /\ last.endpoint \in ApiEndpoints) =>
                    last.resp.status = 401

\* C2 witness: a credential of another share, renamed to this share's cookie
\* and signed with a secret equal to this share's secret, is answered 401
C2_Witness ==
    /\ Answered("status") /\ CarriesForeignCredential
    /\ \E en \in Shares :
        /\ Presented.key \in hass_data[en.entry_id]
        /\ ~ \E e \in Presented.exp : e * TicksPerSec <= now
    /\ last.resp.status = 401

\* the share an auth request was answered for: it exists and has a secret
AuthAnswered(en) ==
    /\ Answered("auth")
    /\ en \in Shares
    /\ Provisioned(en)

\* success with the share's cookie set
AuthSuccess ==
    /\ last.resp.status = 200
    /\ \E c \in last.resp.cookie : c.name = last.slug

\* refusal with the status, no cookie set and no credential issued
AuthRefused(status) ==
    /\ last.resp.status = status
    /\ last.resp.cookie = {}
    /\ last.issued = {}

\* C5 as stated: the auth endpoint of an existing, configured share answers
\* with success and the share's cookie exactly when the body's passcode value
\* equals the stored passcode; every other submission is refused with 401.
C5_PasscodeFieldDecides ==
    \A en \in Shares :
        AuthAnswered(en) =>
            IF last.body.json = "object" /\ last.body.passcode = {en.passcode}
                THEN AuthSuccess
                ELSE AuthRefused(401)

\* C5 amended: the auth endpoint of an existing share whose secret is
\* provisioned answers with success and the share's cookie exactly when the
\* body is a JSON object whose pin field equals the stored passcode, whatever
\* the toggle's state; a JSON object with any other pin (wrong, empty, or
\* missing) gets 401 and a body that is no JSON object gets 400, both with no
\* cookie set and no credential issued.
C5_PinFieldDecides ==
    \A en \in Shares :
        AuthAnswered(en) =>
            IF last.body.json = "object" /\ last.body.pin = {en.passcode}
                THEN AuthSuccess /\ last.issued # {}
            ELSE IF last.body.json = "object"
                THEN AuthRefused(401)
            ELSE AuthRefused(400)

\* C5 witness: success with the toggle not on, and the passcode under the
\* field pin
C5_Witness ==
    \E en \in Shares :
        /\ AuthAnswered(en) /\ AuthSuccess
        /\ ~ToggleOn(en)
        /\ last.body.pin = {en.passcode}

\* the response every credential failure gets on the endpoint
Unauthorized ==
    IF last.endpoint = "viewer"
        THEN [BlankResp EXCEPT !.status = 302, !.ctype = "redirect",
                               !.location = last.slug]
    ELSE IF last.endpoint \in {"status", "stream-info"}
        THEN [BlankResp EXCEPT !.status = 401, !.ctype = "json",
                               !.body = "Unauthorized"]
    ELSE [BlankResp EXCEPT !.status = 401, !.ctype = "text", !.body = "Unauthorized"]

\* C6: whatever makes the credential fail (no cookie for the slug, malformed
\* token, bad signature, another slug in the payload, expiry passed), the
\* check answers false without raising and the endpoint gives its one
\* unauthorized response: the redirect to the passcode page on the viewer
\* page, the same 401 on an API endpoint.
C6_FailuresIndistinguishable ==
    \A en \in Shares :
        (last.phase = "done" /\ last.endpoint \in CookieGated /\ Provisioned(en)
                /\ CredentialKind(en) # "valid") =>
            last.resp = Unauthorized

\* C6 witness: an expired credential of the share is redirected by the viewer
C6_Witness ==
    \E en \in Shares :
        /\ Answered("viewer") /\ Provisioned(en)
        /\ CredentialKind(en) = "expired"
        /\ Presented.slug = {en.slug}
        /\ last.resp.status = 302

\* C7: on every cookie-gated endpoint a request for a share without a signing
\* secret gets the misconfiguration answer, 500, whatever cookie it carries;
\* not a 404, not an unauthorized answer, not an unhandled exception.
C7_MissingSecretIs500 ==
    \A en \in Shares :
        (last.phase = "done" /\ last.endpoint \in CookieGated /\ ~Provisioned(en)) =>
            /\ last.resp.status = 500
            /\ last.resp.ctype # "exception"

\* C8: on the camera endpoints of a share with a secret, a valid credential
\* gets 403 when the toggle is not on and 403 when the toggle is on and the
\* camera is not one of the share's cameras, and an invalid credential gets
\* 401 whatever the toggle and the camera.
C8_ForbiddenAndUnauthorized ==
    \A en \in Shares :
        (last.phase = "done" /\ last.endpoint \in CameraEndpoints /\ Provisioned(en)) =>
            /\ (CredentialKind(en) = "valid" /\ ~ToggleOn(en)) =>
                    last.resp.status = 403
            /\ (CredentialKind(en) = "valid" /\ ToggleOn(en)
                    /\ last.camera_id \notin {en.cameras[i] : i \in 1 .. Len(en.cameras)}) =>
                    last.resp.status = 403
            /\ CredentialKind(en) # "valid" => last.resp.status = 401

\* C8 witness: a valid credential, the toggle on, and a camera that exists but
\* belongs to another share only, answered 403
C8_Witness ==
    \E en \in Shares :
        /\ Answered("stream") /\ Provisioned(en)
        /\ CredentialKind(en) = "valid" /\ ToggleOn(en)
        /\ last.camera_id \in CameraIds
        /\ last.camera_id \notin {en.cameras[i] : i \in 1 .. Len(en.cameras)}
        /\ last.resp.status = 403

\* a status request with a valid credential
StatusAuthorized(en) ==
    /\ Answered("status")
    /\ en \in Shares
    /\ Provisioned(en)
    /\ CredentialKind(en) = "valid"

\* C9 as stated: status with a valid credential succeeds with the toggle on or
\* off, available is the share's enablement, and the cameras list has one
\* entry, with id and name, for each of the share's allowed cameras.
C9_StatusListsAllowedCameras ==
    \A en \in Shares :
        StatusAuthorized(en) =>
            /\ last.resp.status = 200
            /\ last.resp.available = ToggleOn(en)
            /\ Len(last.resp.cameras) = Len(en.cameras)
            /\ \A i \in 1 .. Len(en.cameras) :
                    last.resp.cameras[i].entity_id = en.cameras[i]

\* the share's cameras that have a state, in the share's order
CamerasWithState(en) == SelectSeq(en.cameras, LAMBDA c : states[c] # {})

\* C9 amended: status with a valid credential succeeds with the toggle on or
\* off, available is the share's enablement (false when the toggle is off or
\* has no known state), and the cameras list has one entry, with id and name,
\* for each allowed camera that has a state at that moment, in the share's
\* order; an allowed camera without a state is left out.
C9_StatusListsCamerasWithState ==
    \A en \in Shares :
        StatusAuthorized(en) =>
            /\ last.resp.status = 200
            /\ last.resp.available = ToggleOn(en)
            /\ Len(last.resp.cameras) = Len(CamerasWithState(en))
            /\ \A i \in 1 .. Len(CamerasWithState(en)) :
                /\ last.resp.cameras[i].entity_id = CamerasWithState(en)[i]
                /\ last.resp.cameras[i].name \in
                        friendly_name[CamerasWithState(en)[i]]
                            \cup {CamerasWithState(en)[i]}

\* C9 witness: status answered with the toggle off and an allowed camera that
\* has no state left out of the list
C9_Witness ==
    \E en \in Shares :
        /\ StatusAuthorized(en)
        /\ ~ToggleOn(en) /\ ~last.resp.available
        /\ Len(last.resp.cameras) = 1
        /\ Len(en.cameras) = 2

----------------------------------------------------------------------------
\* The passcode endpoint under every session-duration setting: the share
\* "garage" carries any key of SESSION_DURATIONS, no key, or a key the table
\* does not have; both shares are loaded

\* what entry.data may hold under CONF_SESSION_DURATION
SessionSettings == {{}} \cup {{k} : k \in DurationKeys \cup {"2w"}}

CookieInit ==
    /\ now \in 0 .. MaxStartTick
    /\ \E sd \in SessionSettings :
        config_entries =
            << Entry("e1", "garage", "Garage", "4821", <<"camera.garage">>, sd),
               Entry("e2", "office", "Office", "9999",
                     <<"camera.basement", "camera.garage">>, {"never"}) >>
    /\ entry_state = [e \in EntryIds |-> "loaded"]
    /\ \E k1 \in Secrets, k2 \in Secrets :
        hass_data = [e \in EntryIds |-> IF e = "e1" THEN {k1} ELSE {k2}]
    /\ states = [x \in {SwitchEntityIds[sl] : sl \in Slugs} \cup CameraIds |->
                    IF x \in CameraIds THEN {"idle"} ELSE {"off"}]
    /\ jar = {}
    /\ last = NoExchange
    /\ checked = NoCheck
    /\ sse = NoConnection
    /\ frame = NoStream
    /\ revoked = {}
    /\ http = register_views(NoViews)
    /\ flows = NoFlows

CookieNext == AuthPost \/ AuthBodyRead \/ Deliver \/ GateAdvance

SpecCookie == CookieInit /\ [][CookieNext]_vars

\* the seconds the table gives for the share's setting, None for "never"; no
\* setting and an unknown setting count as 24 hours
SettingSeconds(en) ==
    IF en.session_duration = {"1h"} THEN {H1}
    ELSE IF en.session_duration = {"7d"} THEN {D7}
    ELSE IF en.session_duration = {"30d"} THEN {D30}
    ELSE IF en.session_duration = {"1y"} THEN {Y1}
    ELSE IF en.session_duration = {"never"} THEN None
    ELSE {H24}

\* C17: on a successful passcode submission the response sets one cookie, named
\* for the slug, HTTP-only, same-site lax, secure exactly when the request was,
\* that holds the credential issued with the response; for a finite setting
\* the cookie's max-age is the setting's seconds and the credential expires
\* that many seconds after the (whole) second of issuance, and for "never"
\* the credential has no expiry and the max-age is 315360000.
C17_CookieMirrorsCredential ==
    (Answered("auth") /\ last.resp.status = 200) =>
        \E en \in Shares, c \in last.resp.cookie, j \in last.issued :
            /\ last.resp.cookie = {c} /\ last.issued = {j}
            /\ c.name = last.slug /\ c.httponly /\ c.samesite = "Lax"
            /\ c.secure = last.secure
            /\ c.token = j.token /\ j.token.slug = {last.slug}
            /\ IF SettingSeconds(en) = None
                    THEN c.max_age = {NEVER_MAX_AGE} /\ j.token.exp = None
                    ELSE /\ c.max_age = SettingSeconds(en)
                         /\ j.token.exp =
                                {timegm(now) + d : d \in SettingSeconds(en)}

\* C17 witness: a success on a secure request to a share that never expires
\* its sessions, with the ten-year cookie
C17_Witness ==
    /\ Answered("auth") /\ last.resp.status = 200 /\ last.secure
    /\ \E en \in Shares : en.session_duration = {"never"}
    /\ \E c \in last.resp.cookie : c.max_age = {NEVER_MAX_AGE}

----------------------------------------------------------------------------
\* The event stream at work: one connection to a share while its toggle is
\* switched, its entry unloaded and set up again (CamPassEventsView.get from
\* the prepared response on)

\* f"data: {{\"available\": {str(value).lower()}}}\n\n"
data_event(value) == IF value THEN "data: true" ELSE "data: false"

KEEPALIVE == ": keepalive"

\* the share the connection is for
SseSlug == "garage"

SseInit ==
    /\ now = 0
    /\ config_entries =
        << Entry("e1", "garage", "Garage", "4821", <<"camera.garage">>, {}),
           Entry("e2", "office", "Office", "9999",
                 <<"camera.basement", "camera.garage">>, {"never"}) >>
    /\ entry_state = [e \in EntryIds |-> IF e = "e1" THEN "loaded" ELSE "not_loaded"]
    /\ \E secret \in Secrets :
        /\ hass_data = [e \in EntryIds |-> IF e = "e1" THEN {secret} ELSE {}]
        /\ jar = {[token |-> create_jwt_token(SseSlug, secret, {H24}, 0),
                   slug |-> SseSlug, secret |-> secret, at |-> 0, ttl |-> {H24}]}
    /\ \E st \in {{"off"}, {"on"}} :
        states = [x \in {SwitchEntityIds[sl] : sl \in Slugs} \cup CameraIds |->
                    IF x \in CameraIds THEN {"idle"}
                    ELSE IF x = SwitchEntityIds[SseSlug] THEN st
                    ELSE None]
    /\ last = NoExchange
    /\ checked = NoCheck
    /\ sse = NoConnection
    /\ frame = NoStream
    /\ revoked = {}
    /\ http = register_views(NoViews)
    /\ flows = NoFlows

\* lines 240-253: the gate is passed and the response is prepared
SseOpen ==
    /\ sse.pc = "none"
    /\ \E j \in jar :
        CamPassEventsView_get(SseSlug, [n \in Slugs |->
                IF n = SseSlug THEN j.token ELSE NoneToken]).status = 200
    /\ sse' = [sse EXCEPT !.pc = "prepared"]
    /\ UNCHANGED <<now, config_entries, entry_state, hass_data, states, jar, last, checked, frame, revoked, http, flows>>

\* the client closes or resets the connection
SsePeerCloses ==
    /\ sse.pc \notin {"none", "closed"}
    /\ sse.peer = "open"
    /\ sse' = [sse EXCEPT !.peer = "closed"]
    /\ UNCHANGED <<now, config_entries, entry_state, hass_data, states, jar, last, checked, frame, revoked, http, flows>>

\* lines 255-258: the enablement is read and the first event's write begins;
\* on a closed connection the write raises and the handler is left before
\* anything was registered
SseFirstEvent ==
    /\ sse.pc = "prepared"
    /\ \E en \in get_entry_by_slug(SseSlug) :
        sse' = IF sse.peer = "closed"
                 THEN [sse EXCEPT !.pc = "closed", !.exit = "raised",
                                  !.available = is_sharing_enabled(en)]
                 ELSE [sse EXCEPT !.pc = "writing_first",
                                  !.available = is_sharing_enabled(en),
                                  !.out = Append(@, data_event(is_sharing_enabled(en)))]
    /\ UNCHANGED <<now, config_entries, entry_state, hass_data, states, jar, last, checked, frame, revoked, http, flows>>

\* line 256: the first write fails while it is suspended (the peer is gone);
\* the exception leaves the handler, nothing is registered yet
SseFirstWriteFails ==
    /\ sse.pc = "writing_first"
    /\ sse.peer = "closed"
    /\ sse' = [sse EXCEPT !.pc = "closed", !.exit = "raised"]
    /\ UNCHANGED <<now, config_entries, entry_state, hass_data, states, jar, last, checked, frame, revoked, http, flows>>

\* lines 260-275: the first write is done; the listener is registered and the
\* loop starts to wait
SseSubscribe ==
    /\ sse.pc = "writing_first"
    /\ sse.peer = "open"
    /\ \E en \in get_entry_by_slug(SseSlug) :
        sse' = [sse EXCEPT !.pc = "waiting",
                           !.switch_id = get_switch_entity_id(en),
                           !.state_data = sse.available,
                           !.change_event = FALSE,
                           !.subscribed = TRUE]
    /\ UNCHANGED <<now, config_entries, entry_state, hass_data, states, jar, last, checked, frame, revoked, http, flows>>

\* lines 275-279: the wait ends with the event set; the event is cleared and
\* the write of a data event begins, or raises ConnectionResetError on a
\* closed connection (lines 282-285)
SseChange ==
    /\ sse.pc = "waiting" /\ sse.change_event
    /\ sse.peer = "open" => Len(sse.out) < MaxWrites
    /\ sse' = IF sse.peer = "closed"
                THEN finally_unsub([sse EXCEPT !.change_event = FALSE], "returned")
                ELSE [sse EXCEPT !.pc = "writing",
                                 !.change_event = FALSE,
                                 !.out = Append(@, data_event(sse.state_data))]
    /\ UNCHANGED <<now, config_entries, entry_state, hass_data, states, jar, last, checked, frame, revoked, http, flows>>

\* lines 280-281: the wait times out; the write of a keep-alive begins, or
\* raises ConnectionResetError on a closed connection (lines 282-285)
SseKeepalive ==
    /\ sse.pc = "waiting" /\ ~sse.change_event
    /\ sse.peer = "open" => Len(sse.out) < MaxWrites
    /\ sse' = IF sse.peer = "closed"
                THEN finally_unsub(sse, "returned")
                ELSE [sse EXCEPT !.pc = "writing", !.out = Append(@, KEEPALIVE)]
    /\ UNCHANGED <<now, config_entries, entry_state, hass_data, states, jar, last, checked, frame, revoked, http, flows>>

\* the write is done and the loop is back at the wait of line 275, or the
\* suspended write ends with ConnectionResetError because the peer is gone
SseWritten ==
    /\ sse.pc = "writing"
    /\ sse' = IF sse.peer = "closed"
                THEN finally_unsub(sse, "returned")
                ELSE [sse EXCEPT !.pc = "waiting"]
    /\ UNCHANGED <<now, config_entries, entry_state, hass_data, states, jar, last, checked, frame, revoked, http, flows>>

\* a write inside the loop raises something that line 282 does not catch;
\* the finally clause runs and the exception leaves the handler
SseWriteRaises ==
    /\ sse.pc = "writing"
    /\ sse' = finally_unsub(sse, "raised")
    /\ UNCHANGED <<now, config_entries, entry_state, hass_data, states, jar, last, checked, frame, revoked, http, flows>>

\* lines 282-287: the task is cancelled inside the loop (CancelledError at
\* the wait or at a write); the listener is removed and the handler returns
SseClose ==
    /\ sse.pc \in {"waiting", "writing"}
    /\ sse' = finally_unsub(sse, "returned")
    /\ UNCHANGED <<now, config_entries, entry_state, hass_data, states, jar, last, checked, frame, revoked, http, flows>>

\* the steps the handler takes by itself
SseStep ==
    \/ SseFirstEvent \/ SseFirstWriteFails \/ SseSubscribe
    \/ SseChange \/ SseKeepalive \/ SseWritten

SseNext ==
    \/ SseOpen \/ SsePeerCloses \/ SseStep \/ SseWriteRaises \/ SseClose
    \/ TurnOn \/ TurnOff \/ UnloadEntry \/ SetupEntry \/ SwitchSetup

SpecSSE == SseInit /\ [][SseNext]_vars

\* the event loop runs a task that can run: a write on a closed connection
\* fails, and the wait of line 275 ends after 15 seconds at the latest
SpecSSEFair == SpecSSE /\ WF_vars(SseStep)

----------------------------------------------------------------------------
\* The stream-info endpoint by itself: requests to a loaded share that has
\* issued a credential, while its toggle is switched and time passes

NegotiateNext == StreamInfoGet \/ Deliver \/ TurnOn \/ TurnOff \/ GateAdvance

SpecNegotiate == SseInit /\ [][NegotiateNext]_vars

\* the request is an authorized one for a camera of the share: the share has
\* a secret, the credential verifies, the toggle is on, the camera is allowed
Authorized(en) ==
    /\ Provisioned(en)
    /\ CredentialKind(en) = "valid"
    /\ ToggleOn(en)
    /\ \E i \in 1 .. Len(en.cameras) : en.cameras[i] = last.camera_id

\* C16: an authorized stream-info request is always answered 200 with a
\* delivery descriptor: the HLS descriptor only when every step of the HLS path
\* worked, and in every other case (no camera entity, no stream, any step
\* raising) the descriptor of this integration's own stream endpoint for
\* exactly the requested slug and camera id.
C16_NegotiateAlwaysDescribes ==
    (Answered("stream-info") /\ \E en \in Shares : Authorized(en)) =>
        /\ last.resp.status = 200
        /\ last.upstream \in HlsOutcomes
        /\ IF last.upstream = "ok"
                THEN last.resp.type = "hls"
                ELSE /\ last.resp.type = "mjpeg"
                     /\ last.resp.url =
                            <<"campass", last.slug, "api", "stream", last.camera_id>>

\* C16 witness: the HLS stream was created but did not start, and the answer
\* is the descriptor of the own stream endpoint
C16_Witness ==
    /\ Answered("stream-info") /\ \E en \in Shares : Authorized(en)
    /\ last.upstream = "start_raises"
    /\ last.resp.status = 200 /\ last.resp.type = "mjpeg"

----------------------------------------------------------------------------
\* Claims about the event stream (checked under SpecSSE)

\* the data events written so far
DataEvents == SelectSeq(sse.out, LAMBDA x : x # KEEPALIVE)

\* the connection is open, its loop waits and no change is left to report
SseQuiet == sse.pc = "waiting" /\ ~sse.change_event /\ sse.peer = "open"

\* the share's enablement as it is
SseEnabled == states[SwitchEntityIds[SseSlug]] = {"on"}

\* C10: every change of the toggle after the first event's value was read
\* (also during the first write, before the listener is registered, and also
\* when the toggle becomes unavailable) is followed by a data event with the
\* toggle's value, so that whenever the loop waits with no change left to
\* report, the last data event sent is the toggle's actual state.
C10_LastEventIsToggleState ==
    (SseQuiet /\ DataEvents # <<>>) =>
        DataEvents[Len(DataEvents)] = data_event(SseEnabled)

\* C11: the first thing written on a connection that passed the gate is one
\* data event with the share's enablement as it is when the event is produced
\* (nothing is written before it); from then on each write adds one item: a
\* data event when a change notification is pending, a keep-alive comment
\* when the wait ended without one.
C11_FirstEventThenChangesOnly ==
    [][sse'.out # sse.out =>
        /\ Len(sse'.out) = Len(sse.out) + 1
        /\ SubSeq(sse'.out, 1, Len(sse.out)) = sse.out
        /\ IF sse.out = <<>>
                THEN /\ sse.pc = "prepared"
                     /\ sse'.out[1] = data_event(SseEnabled)
                ELSE /\ sse.pc = "waiting"
                     /\ sse'.out[Len(sse'.out)] =
                            IF sse.change_event THEN data_event(sse.state_data)
                            ELSE KEEPALIVE]_vars

\* C11 witness: a first data event, then a keep-alive, then a change's event
C11_Witness ==
    /\ Len(sse.out) = 3
    /\ sse.out[1] # KEEPALIVE /\ sse.out[2] = KEEPALIVE /\ sse.out[3] # KEEPALIVE

\* the connection registered its listener
SseRegistered == sse.switch_id # ""

\* C12: a connection that registered its toggle listener calls unsub() once,
\* and only when the handler is left (peer gone, write error, cancellation,
\* any other exception): while the handler runs the listener is registered
\* and unsub() was not called, after it nothing is registered and unsub() was
\* called exactly once; and a handler whose peer has closed does leave.
C12_UnsubscribedOnceOnEveryExit ==
    /\ [](SseRegistered =>
            IF sse.pc = "closed"
                THEN ~sse.subscribed /\ sse.unsubs = 1
                ELSE sse.subscribed /\ sse.unsubs = 0)
    /\ [](~SseRegistered => ~sse.subscribed /\ sse.unsubs = 0)
    /\ ((sse.peer = "closed") ~> (sse.pc = "closed"))

\* C12 witness: the loop was left with an exception that is not caught, and
\* the listener is gone
C12_Witness ==
    /\ SseRegistered /\ sse.pc = "closed" /\ sse.exit = "raised"
    /\ sse.unsubs = 1 /\ ~sse.subscribed

\* the toggle's state
SseToggle == states[SwitchEntityIds[SseSlug]]

\* the step tells the registered listener of a new state of the toggle
SseNotified == sse.subscribed /\ SseToggle' # SseToggle /\ SseToggle' # None

\* the step begins the write of a data event inside the loop
SseLoopEvent ==
    /\ sse.out # <<>> /\ Len(sse'.out) = Len(sse.out) + 1
    /\ sse'.out[Len(sse'.out)] # KEEPALIVE

\* a notification is pending and the loop can still write
SsePending == sse.subscribed /\ sse.change_event /\ Len(sse.out) < MaxWrites

\* C22: within one connection the data events follow the toggle's
\* transitions. A notification stores the toggle's new value and sets the
\* event, also while an item is being written; the pending value is always
\* the toggle's latest one (a burst is coalesced); a data event of the loop
\* is produced only for a pending notification, carries the pending value
\* and clears the event; with nothing pending the last data event is the
\* value last notified; and a pending notification does not stay pending:
\* the event is cleared, which only a further data event or the end of the
\* connection does.
C22_EventsFollowTransitions ==
    /\ [][SseNotified =>
            sse'.change_event /\ sse'.state_data = (SseToggle' = {"on"})]_vars
    /\ [][SseLoopEvent =>
            /\ sse.change_event /\ ~sse'.change_event
            /\ sse'.out[Len(sse'.out)] = data_event(sse.state_data)]_vars
    /\ []((sse.subscribed /\ sse.change_event) =>
            (SseToggle = None \/ sse.state_data = SseEnabled))
    /\ []((sse.subscribed /\ ~sse.change_event) =>
            DataEvents[Len(DataEvents)] = data_event(sse.state_data))
    /\ [][(sse.subscribed /\ sse.change_event /\ ~sse'.change_event) =>
            (SseLoopEvent \/ sse'.pc = "closed")]_vars
    /\ SsePending ~> (~sse.change_event \/ sse.pc = "closed")

\* C22 witness: while a data event of the loop is being written a
\* notification with another value has arrived and is pending
C22_Witness ==
    /\ sse.pc = "writing" /\ sse.peer = "open" /\ sse.change_event
    /\ Len(DataEvents) >= 2
    /\ sse.out[Len(sse.out)] = data_event(~sse.state_data)

----------------------------------------------------------------------------
\* The frame proxy at work: one connection to a camera of a share
\* (CamPassStreamView.get from line 356 on)

StreamInit ==
    /\ now = 0
    /\ config_entries =
        << Entry("e1", "garage", "Garage", "4821", <<"camera.garage">>, {}),
           Entry("e2", "office", "Office", "9999",
                 <<"camera.basement", "camera.garage">>, {"never"}) >>
    /\ entry_state = [e \in EntryIds |-> IF e = "e1" THEN "loaded" ELSE "not_loaded"]
    /\ \E secret \in Secrets :
        /\ hass_data = [e \in EntryIds |-> IF e = "e1" THEN {secret} ELSE {}]
        /\ jar = {[token |-> create_jwt_token(SseSlug, secret, {H24}, 0),
                   slug |-> SseSlug, secret |-> secret, at |-> 0, ttl |-> {H24}]}
    /\ \E st \in {{"off"}, {"on"}} :
        states = [x \in {SwitchEntityIds[sl] : sl \in Slugs} \cup CameraIds |->
                    IF x \in CameraIds THEN {"idle"}
                    ELSE IF x = SwitchEntityIds[SseSlug] THEN st
                    ELSE None]
    /\ last = NoExchange
    /\ checked = NoCheck
    /\ sse = NoConnection
    /\ frame = NoStream
    /\ revoked = {}
    /\ http = register_views(NoViews)
    /\ flows = NoFlows

\* lines 342-358: the gate is passed; the camera entity has a handler of its
\* own for MJPEG streams, or there is no entity or no such handler
StreamOpen ==
    /\ frame.pc = "none"
    /\ \E j \in jar, camera_id \in CameraIds :
        CamPassStreamView_get(SseSlug, camera_id, [n \in Slugs |->
                IF n = SseSlug THEN j.token ELSE NoneToken]).status = 200
    /\ \E has_handler \in BOOLEAN :
        frame' = [frame EXCEPT !.pc = IF has_handler THEN "native" ELSE "fallback",
                               !.native = IF has_handler THEN "called" ELSE "absent"]
    /\ UNCHANGED <<now, config_entries, entry_state, hass_data, states, jar, last,
                   checked, sse, revoked, http, flows>>

\* the client closes or resets the connection
StreamPeerCloses ==
    /\ frame.pc \notin {"none", "closed"}
    /\ frame.peer = "open"
    /\ frame' = [frame EXCEPT !.peer = "closed"]
    /\ UNCHANGED <<now, config_entries, entry_state, hass_data, states, jar, last,
                   checked, sse, revoked, http, flows>>

\* line 360, inside camera.handle_async_mjpeg_stream: the camera's handler
\* starts a response of its own on the connection and sends frames
StreamNativeStarts ==
    /\ frame.pc = "native" /\ frame.native = "called"
    /\ frame' = [frame EXCEPT !.native = "streaming", !.starts = @ + 1]
    /\ UNCHANGED <<now, config_entries, entry_state, hass_data, states, jar, last,
                   checked, sse, revoked, http, flows>>

\* line 360: the camera's handler returns its response, which the view returns
StreamNativeReturns ==
    /\ frame.pc = "native" /\ frame.native = "streaming"
    /\ frame' = [frame EXCEPT !.pc = "closed", !.native = "returned",
                               !.exit = "returned"]
    /\ UNCHANGED <<now, config_entries, entry_state, hass_data, states, jar, last,
                   checked, sse, revoked, http, flows>>

\* lines 361-362: the camera's handler raises, before it sent anything or in
\* the middle of its stream; the error is logged and the view goes on
StreamNativeRaises ==
    /\ frame.pc = "native"
    /\ frame' = [frame EXCEPT !.pc = "fallback",
                               !.native = IF frame.native = "streaming"
                                            THEN "raised_midstream"
                                            ELSE "raised_early"]
    /\ UNCHANGED <<now, config_entries, entry_state, hass_data, states, jar, last,
                   checked, sse, revoked, http, flows>>

\* lines 365-367: a new StreamResponse is prepared on the request: its status
\* line and headers are written on the connection; on a closed connection
\* prepare raises, outside the try
StreamPrepare ==
    /\ frame.pc = "fallback"
    /\ frame' = IF frame.peer = "closed"
                  THEN [frame EXCEPT !.pc = "closed", !.exit = "raised"]
                  ELSE [frame EXCEPT !.pc = "fetching", !.prepared = TRUE,
                                     !.starts = @ + 1]
    /\ UNCHANGED <<now, config_entries, entry_state, hass_data, states, jar, last,
                   checked, sse, revoked, http, flows>>

\* line 372: async_get_image returns an image; the write of its part begins
StreamFetchOk ==
    /\ frame.pc = "fetching"
    /\ Len(frame.fetches) < MaxFetches
    /\ frame' = [frame EXCEPT !.fetches = Append(@, "ok"), !.pc = "writing"]
    /\ UNCHANGED <<now, config_entries, entry_state, hass_data, states, jar, last,
                   checked, sse, revoked, http, flows>>

\* a failed fetch that also switches the share off
StreamFetchFails_disabling ==
    /\ frame.pc = "fetching"
    /\ Len(frame.fetches) < MaxFetches
    /\ frame' = fetch_failed(frame)
    /\ write_state(SwitchEntityIds[SseSlug], {"off"})
    /\ UNCHANGED <<now, config_entries, entry_state, hass_data, jar, last,
                   checked, revoked, http, flows>>

\* lines 372, 379-381: async_get_image raises
StreamFetchFails ==
    /\ frame.pc = "fetching"
    /\ Len(frame.fetches) < MaxFetches
    /\ frame' = fetch_failed(frame)
    /\ UNCHANGED <<now, config_entries, entry_state, hass_data, states, jar, last,
                   checked, sse, revoked, http, flows>>

\* lines 373-378: the part of the image just fetched is written
StreamPartWritten ==
    /\ frame.pc = "writing"
    /\ frame.peer = "open"
    /\ frame' = [frame EXCEPT !.parts = Append(@, Len(frame.fetches)),
                               !.pc = "sleeping"]
    /\ UNCHANGED <<now, config_entries, entry_state, hass_data, states, jar, last,
                   checked, sse, revoked, http, flows>>

\* lines 373-381: the write raises ConnectionResetError on a closed
\* connection; line 379 catches it as it catches a failed fetch
StreamWriteFails ==
    /\ frame.pc = "writing"
    /\ frame.peer = "closed"
    /\ frame' = write_eof(frame, "returned")
    /\ UNCHANGED <<now, config_entries, entry_state, hass_data, states, jar, last,
                   checked, sse, revoked, http, flows>>

\* line 382: the sleep of half a second is over
StreamSleepDone ==
    /\ frame.pc = "sleeping"
    /\ frame' = [frame EXCEPT !.pc = "fetching"]
    /\ UNCHANGED <<now, config_entries, entry_state, hass_data, states, jar, last,
                   checked, sse, revoked, http, flows>>

\* lines 383-386: the task is cancelled at one of the loop's awaits;
\* CancelledError passes line 379 and is caught at line 383
StreamCancelled ==
    /\ frame.pc \in {"fetching", "writing", "sleeping"}
    /\ frame' = write_eof(frame, "returned")
    /\ UNCHANGED <<now, config_entries, entry_state, hass_data, states, jar, last,
                   checked, sse, revoked, http, flows>>

StreamNext ==
    \/ StreamOpen \/ StreamPeerCloses
    \/ StreamNativeStarts \/ StreamNativeReturns \/ StreamNativeRaises
    \/ StreamPrepare \/ StreamFetchOk \/ StreamFetchFails \/ StreamPartWritten
    \/ StreamWriteFails \/ StreamSleepDone \/ StreamCancelled
    \/ TurnOn \/ TurnOff

SpecStream == StreamInit /\ [][StreamNext]_vars

----------------------------------------------------------------------------
\* Claims about the frame proxy (checked under SpecStream)

\* C13: once the proxy has started its multipart response, write_eof() is
\* called exactly once, and it is called when the handler is left, whichever
\* way that is (a failed fetch, a failed write, the peer gone, the task
\* cancelled): never before, never twice, and never without the response
\* having been started.
C13_EofOnceOnEveryExit ==
    IF frame.prepared
        THEN frame.eofs = IF frame.pc = "closed" THEN 1 ELSE 0
        ELSE frame.eofs = 0

\* C13 witness: the peer went away while a part was being written, and the
\* handler was left through the finally clause
C13_Witness ==
    /\ frame.prepared /\ frame.pc = "closed" /\ frame.peer = "closed"
    /\ frame.fetches = <<"ok">> /\ frame.parts = <<>> /\ frame.eofs = 1

\* C14: when the camera's own stream handler raises after it has begun to
\* send, the connection goes on with still-image parts and no second response
\* start (status line and headers) is written on it.
C14_NoSecondResponseStart ==
    frame.native = "raised_midstream" => frame.starts = 1

\* the fetches that returned an image
OkFetches == {k \in 1 .. Len(frame.fetches) : frame.fetches[k] = "ok"}

\* a failed fetch is the last fetch and ends the handler; the parts are those
\* of the successful fetches, in order, each written before the next fetch
FetchDiscipline ==
    /\ \A i \in 1 .. Len(frame.fetches) :
            frame.fetches[i] = "failed" =>
                i = Len(frame.fetches) /\ frame.pc = "closed"
    /\ frame.parts = [i \in 1 .. Len(frame.parts) |-> i]
    /\ \A i \in 1 .. Len(frame.parts) : i \in OkFetches
    /\ Len(frame.parts) >= Cardinality(OkFetches) - 1
    /\ frame.pc \in {"fetching", "sleeping"} =>
            Len(frame.parts) = Cardinality(OkFetches)

\* C15: a failed fetch is the last thing the loop does: it is the last fetch
\* and the handler is left, so that no fetch and no part follows it; parts are
\* written one per successful fetch, in the order of the fetches, each before
\* the next fetch; and a handler that is left does nothing more.
C15_FirstFailureEndsTheLoop ==
    /\ []FetchDiscipline
    /\ [][frame.pc = "closed" => frame' = frame]_vars

\* C15 witness: one part was written, then the second fetch failed
C15_Witness ==
    /\ frame.fetches = <<"ok", "failed">> /\ frame.parts = <<1>>
    /\ frame.pc = "closed"

----------------------------------------------------------------------------
\* Claims about the life of a share (checked under SpecLifecycle)

\* the credential's expiry has passed
Expired(j) == \E e \in j.token.exp : e * TicksPerSec <= now

\* C18: a share's secret, once generated, is not replaced by a later setup:
\* it only goes away when the loaded share is unloaded, and until then the
\* unexpired credentials issued for the share verify with it; a credential
\* issued before its share was unloaded verifies for that slug never again,
\* whether or not the share has been set up again.
C18_SecretKeptThenDiscarded ==
    /\ [](\A j \in jar : \A i \in 1 .. Len(config_entries) :
            LET en == config_entries[i]
            IN  en.slug = j.slug =>
                    IF j \in revoked
                        THEN \A s \in hass_data[en.entry_id] :
                                ~verify_jwt_token(j.token, en.slug, s, now)
                        ELSE ~Expired(j) =>
                                /\ hass_data[en.entry_id] = {j.secret}
                                /\ verify_jwt_token(j.token, en.slug, j.secret, now))
    /\ [][\A e \in EntryIds :
            (hass_data[e] # {} /\ hass_data'[e] # hass_data[e]) =>
                (hass_data'[e] = {} /\ entry_state[e] = "loaded")]_vars

\* C18 witness: the share is loaded again with a new secret while a
\* credential issued before the unload, not yet expired, is still around
C18_Witness ==
    \E j \in revoked : \E i \in 1 .. Len(config_entries) :
        /\ config_entries[i].slug = j.slug
        /\ entry_state[config_entries[i].entry_id] = "loaded"
        /\ hass_data[config_entries[i].entry_id] # {}
        /\ ~Expired(j)

\* how many times a view is registered
Registrations(v) == Cardinality({i \in 1 .. Len(http.views) : http.views[i] = v})

\* C20: once a share has been set up, every endpoint of the per-share HTTP
\* surface (redirect, passcode page, viewer, auth, status, events,
\* stream-info, stream) is registered, and registered exactly once, however
\* many shares have been set up, unloaded and set up again.
C20_EveryEndpointRegisteredOnce ==
    http.views_registered => \A v \in HTTP_SURFACE : Registrations(v) = 1

----------------------------------------------------------------------------
\* The config flow and the options flow (config_flow.py). Texts are sequences
\* of characters here, so that slugify and the validators work on them.

\* the characters of [a-z0-9\-] that occur
SlugChars ==
    {"a", "b", "c", "e", "f", "g", "h", "i", "o", "r", "s",
     "1", "2", "4", "8", "9", "-"}
Digits == {"1", "2", "4", "8", "9"}

\* str.lower() on one character
lower(ch) == IF ch = "A" THEN "a" ELSE IF ch = "B" THEN "b" ELSE ch

\* re.sub(set+, repl, text): every maximal run of characters of the set
\* becomes one repl
RECURSIVE sub_runs(_, _, _)
sub_runs(text, set, repl) ==
    IF text = <<>> THEN <<>>
    ELSE IF Head(text) \notin set THEN <<Head(text)>> \o sub_runs(Tail(text), set, repl)
    ELSE IF Len(text) > 1 /\ text[2] \in set THEN sub_runs(Tail(text), set, repl)
    ELSE <<repl>> \o sub_runs(Tail(text), set, repl)

\* text.lstrip('-')
RECURSIVE lstrip(_)
lstrip(text) ==
    IF text # <<>> /\ Head(text) = "-" THEN lstrip(Tail(text)) ELSE text

\* text.rstrip('-')
RECURSIVE rstrip(_)
rstrip(text) ==
    IF text # <<>> /\ text[Len(text)] = "-"
        THEN rstrip(SubSeq(text, 1, Len(text) - 1))
        ELSE text

\* slugify(text)
slugify(text) ==
    LET lowered == [i \in 1 .. Len(text) |-> lower(text[i])]
        dashed == sub_runs(lowered, {" ", "\n", "_"}, "-")
        kept == SelectSeq(dashed, LAMBDA ch : ch \in SlugChars)
        single == sub_runs(kept, {"-"}, "-")
    IN  rstrip(lstrip(single))

\* re.match(r'^[set]+$', text): one or more characters of the set up to the
\* end of the text, where $ also matches just before a newline that ends it
match_all(text, set) ==
    LET body == IF Len(text) > 1 /\ text[Len(text)] = "\n"
                    THEN SubSeq(text, 1, Len(text) - 1)
                    ELSE text
    IN  body # <<>> /\ \A i \in 1 .. Len(body) : body[i] \in set

\* validate_slug(slug)
validate_slug(slug) ==
    IF slug = <<>> \/ Len(slug) > 32 THEN FALSE
    ELSE match_all(slug, SlugChars)

\* the text without the one newline that may end it
rstrip_newline(text) ==
    IF Len(text) > 1 /\ text[Len(text)] = "\n"
        THEN SubSeq(text, 1, Len(text) - 1)
        ELSE text

\* validate_passcode(passcode, auth_type)
validate_passcode(passcode, auth_type) ==
    IF passcode = <<>> THEN FALSE
    ELSE IF auth_type = "pin4"
        THEN match_all(passcode, Digits) /\ Len(rstrip_newline(passcode)) = 4
    ELSE IF auth_type = "pin6"
        THEN match_all(passcode, Digits) /\ Len(rstrip_newline(passcode)) = 6
    ELSE IF auth_type = "alphanumeric" THEN Len(passcode) >= 4
    ELSE FALSE

\* what a user may type: names (one of them longer than the 32 characters
\* of validate_slug), slugs (<<>> when the field is left out), passcodes, and
\* the cameras picked
LongName == [i \in 1 .. 33 |-> "a"]
Names == {<<"A", " ", "_", "b">>, <<"!">>, LongName}
SlugInputs ==
    {<<>>, <<"a", "-", "b">>, <<"A", "b">>, <<"a", "-", "b", "\n">>, LongName}
Passcodes == {<<"4", "8", "2", "1">>, <<"4", "8">>}
AuthTypes == {"pin4", "alphanumeric"}
CameraChoices == {<<>>, <<"camera.garage">>}

\* the slug "share", the default of line 86
SHARE == <<"s", "h", "a", "r", "e">>

\* the ids the config entries get, in the order of their creation
NewEntryIds == <<"e1", "e2">>

\* self.hass.states.async_entity_ids("camera")
camera_entities == {cam \in CameraIds : states[cam] # None}

\* the slug is taken by an entry other than the one with the id skip
slug_taken(slug, skip) ==
    \E i \in 1 .. Len(config_entries) :
        /\ config_entries[i].entry_id # skip
        /\ config_entries[i].slug = slug

\* async_step_user, lines 78-86: the slug given, or the name's slug, or "share"
user_slug(name, slug_input) ==
    IF slug_input # <<>> THEN slug_input
    ELSE IF slugify(name) # <<>> THEN slugify(name)
    ELSE SHARE

\* async_step_user, lines 69-93: the fields in error
user_errors(name, auth_type, passcode, slug_input) ==
    LET bad_passcode == ~validate_passcode(passcode, auth_type)
        bad_slug == slug_input # <<>> /\ ~validate_slug(slug_input)
    IN  (IF bad_passcode THEN {"passcode"} ELSE {})
            \cup (IF bad_slug THEN {"slug"} ELSE {})
            \cup (IF ~bad_passcode /\ ~bad_slug
                        /\ slug_taken(user_slug(name, slug_input), "")
                    THEN {"slug"} ELSE {})

FlowInit ==
    /\ now = 0
    /\ config_entries = <<>>
    /\ entry_state = [e \in EntryIds |-> "not_loaded"]
    /\ hass_data = [e \in EntryIds |-> {}]
    /\ states = [x \in {SwitchEntityIds[sl] : sl \in Slugs} \cup CameraIds |->
                    IF x \in CameraIds THEN {"idle"} ELSE None]
    /\ jar = {}
    /\ last = NoExchange
    /\ checked = NoCheck
    /\ sse = NoConnection
    /\ frame = NoStream
    /\ revoked = {}
    /\ http = NoViews
    /\ flows = NoFlows

\* async_step_user(None): the flow is started and shows its first form
FlowStart ==
    /\ \E f \in FlowIds :
        /\ flows[f].step = "none"
        /\ flows' = [flows EXCEPT ![f] = [step |-> "user", data |-> {}]]
    /\ UNCHANGED <<now, config_entries, entry_state, hass_data, states, jar, last,
                   checked, sse, frame, revoked, http>>

\* async_step_user(user_input): with errors the form is shown again; without,
\* the data is kept and async_step_cameras(None) shows the camera form, or
\* aborts the flow when there is no camera
FlowUser ==
    /\ \E f \in FlowIds, name \in Names, auth_type \in AuthTypes,
          passcode \in Passcodes, slug_input \in SlugInputs :
        /\ flows[f].step = "user"
        /\ flows' = [flows EXCEPT ![f] =
                IF user_errors(name, auth_type, passcode, slug_input) # {}
                    THEN flows[f]
                ELSE IF camera_entities = {}
                    THEN [step |-> "aborted", data |-> {}]
                ELSE [step |-> "cameras",
                      data |-> {[name |-> name, auth_type |-> auth_type,
                                 passcode |-> passcode,
                                 slug |-> user_slug(name, slug_input)]}]]
    /\ UNCHANGED <<now, config_entries, entry_state, hass_data, states, jar, last,
                   checked, sse, frame, revoked, http>>

\* async_step_cameras(user_input): with cameras picked the entry is created
\* from the data kept by the first step; without, the form is shown again or
\* the flow aborts when there is no camera
FlowCameras ==
    /\ \E f \in FlowIds, cameras \in CameraChoices :
        /\ flows[f].step = "cameras"
        /\ IF cameras # <<>>
            THEN /\ \E d \in flows[f].data :
                        config_entries' = Append(config_entries,
                            Entry(NewEntryIds[Len(config_entries) + 1], d.slug,
                                  d.name, d.passcode, cameras, {}))
                 /\ flows' = [flows EXCEPT ![f].step = "created"]
            ELSE /\ flows' = [flows EXCEPT ![f] =
                        IF camera_entities = {}
                            THEN [step |-> "aborted", data |-> {}]
                            ELSE flows[f]]
                 /\ UNCHANGED config_entries
    /\ UNCHANGED <<now, entry_state, hass_data, states, jar, last, checked, sse,
                   frame, revoked, http>>

\* CamPassOptionsFlow.async_step_init, lines 178-202: the fields in error,
\* for a passcode and a slug given by their characters; taken tells whether
\* another entry has the slug
options_errors(auth_type, passcode, slug, taken, cameras) ==
    LET bad_passcode == ~validate_passcode(passcode, auth_type)
        bad_slug == ~validate_slug(slug)
    IN  (IF bad_passcode THEN {"passcode"} ELSE {})
            \cup (IF bad_slug THEN {"slug"} ELSE {})
            \cup (IF ~bad_passcode /\ ~bad_slug /\ taken THEN {"slug"} ELSE {})
            \cup (IF cameras = <<>> THEN {"cameras"} ELSE {})

\* CamPassOptionsFlow.async_step_init(user_input) for an entry: with errors
\* the form is shown again, without the entry's data is replaced
OptionsInit ==
    /\ \E i \in 1 .. Len(config_entries), name \in Names, auth_type \in AuthTypes,
          passcode \in Passcodes, slug \in SlugInputs \ {<<>>},
          cameras \in CameraChoices :
        LET en == config_entries[i]
        IN  /\ options_errors(auth_type, passcode, slug,
                              slug_taken(slug, en.entry_id), cameras) = {}
            /\ config_entries' = [config_entries EXCEPT ![i] =
                    Entry(en.entry_id, slug, name, passcode, cameras, {})]
    /\ UNCHANGED <<now, entry_state, hass_data, states, jar, last, checked, sse,
                   frame, revoked, http, flows>>

\* a camera entity's state appears or goes away while flows are under way
FlowCameraChange ==
    /\ \E cam \in CameraIds, st \in {None, {"idle"}} :
        /\ states[cam] # st
        /\ states' = [states EXCEPT ![cam] = st]
    /\ UNCHANGED <<now, config_entries, entry_state, hass_data, jar, last, checked,
                   sse, frame, revoked, http, flows>>

FlowNext ==
    FlowStart \/ FlowUser \/ FlowCameras \/ OptionsInit \/ FlowCameraChange

SpecFlow == FlowInit /\ [][FlowNext]_vars

\* C19: no two shares have the same slug, whatever creations and updates
\* have happened, two creation flows that both passed the slug check of the
\* first step before either created its entry included.
C19_SlugsUnique ==
    \A i \in 1 .. Len(config_entries), k \in 1 .. Len(config_entries) :
        i # k => config_entries[i].slug # config_entries[k].slug

\* C21: every share that the creation flow or the update flow stores has a
\* slug that is not empty, has at most 32 characters and is made of lowercase
\* letters, digits and hyphens only, whether the slug was typed or derived
\* from the display name.
C21_StoredSlugsWellFormed ==
    \A i \in 1 .. Len(config_entries) :
        LET slug == config_entries[i].slug
        IN  /\ slug # <<>>
            /\ Len(slug) <= 32
            /\ \A k \in 1 .. Len(slug) : slug[k] \in SlugChars

\* the connection's credential verifies now against the share's secret
StreamCredentialValid ==
    \E j \in jar, secret \in hass_data["e1"] :
        verify_jwt_token(j.token, SseSlug, secret, now)

\* C24: no frame is written on a frame-proxy connection at a moment when the
\* share's toggle is off or the connection's credential has expired: every
\* part written is written while the share is enabled and the credential
\* verifies, also on a connection opened earlier.
C24_FramesOnlyWhileEnabled ==
    [][Len(frame'.parts) > Len(frame.parts) =>
            (SseEnabled /\ StreamCredentialValid)]_vars

----------------------------------------------------------------------------
\* Two viewers of one share at a time: an event-stream connection and a
\* frame-proxy connection, while the toggle is switched. A stream-info
\* request is handled beside one of the two connections, before the other one
\* is opened, and its response is delivered before the other one opens.

StreamInfoGetBesideOne ==
    /\ sse.pc = "none" \/ frame.pc = "none"
    /\ StreamInfoGet

SseOpenSecond == NoResponsePending /\ SseOpen

StreamOpenSecond == NoResponsePending /\ StreamOpen

IsolationNext ==
    \/ SseOpenSecond \/ SsePeerCloses \/ SseStep \/ SseWriteRaises \/ SseClose
    \/ StreamOpenSecond \/ StreamPeerCloses
    \/ StreamNativeStarts \/ StreamNativeReturns \/ StreamNativeRaises
    \/ StreamPrepare \/ StreamFetchOk \/ StreamFetchFails \/ StreamPartWritten
    \/ StreamWriteFails \/ StreamSleepDone \/ StreamCancelled
    \/ StreamInfoGetBesideOne \/ Deliver
    \/ TurnOn \/ TurnOff

SpecIsolation == SseInit /\ [][IsolationNext]_vars

\* the step ends the frame-proxy connection
FrameEnds == frame.pc # "closed" /\ frame'.pc = "closed"

\* the step ends the event-stream connection
SseEnds == sse.pc # "closed" /\ sse'.pc = "closed"

\* the step is a stream-info request whose HLS path fails
NegotiationFails ==
    /\ last.phase = "none" /\ last'.endpoint = "stream-info"
    /\ last'.upstream \in HlsOutcomes \ {"ok"}

\* the secrets and the toggles of all shares stay as they are
SharesKept == hass_data' = hass_data /\ states' = states

\* C23: a step that ends one connection (a failed fetch or write or a
\* cancellation of the frame proxy; a peer reset, a write error or a
\* cancellation of the event stream) or a failed negotiation leaves the other
\* connection, every share's signing secret and every share's toggle as they
\* were.
C23_FailureIsContained ==
    [][/\ FrameEnds => (sse' = sse /\ SharesKept)
       /\ SseEnds => (frame' = frame /\ SharesKept)
       /\ NegotiationFails => (sse' = sse /\ frame' = frame /\ SharesKept)]_vars

\* C23 witness: the frame proxy ended on a failed fetch, and the event stream
\* of the same share is open, registered and writing a change's data event
C23_Witness ==
    /\ frame.pc = "closed" /\ frame.fetches # <<>>
    /\ frame.fetches[Len(frame.fetches)] = "failed"
    /\ sse.pc = "writing" /\ sse.subscribed /\ sse.peer = "open"
    /\ Len(DataEvents) >= 2

----------------------------------------------------------------------------
\* The options flow beside the gate: the shares of the gate's vocabulary are
\* updated while a credential issued before is presented to the stream
\* endpoint, the toggle is switched and time passes

\* the characters of the texts an update may carry
Chars ==
    [t \in {"garage", "office", "4821", "9999", "48"} |->
        CASE t = "garage" -> <<"g", "a", "r", "a", "g", "e">>
          [] t = "office" -> <<"o", "f", "f", "i", "c", "e">>
          [] t = "4821" -> <<"4", "8", "2", "1">>
          [] t = "9999" -> <<"9", "9", "9", "9">>
          [] t = "48" -> <<"4", "8">>]

\* what the form is submitted with
UpdateNames == {"Garage", "Yard"}
UpdatePasscodes == {"4821", "9999", "48"}
UpdateCameras == {<<>>, <<"camera.garage">>, <<"camera.basement">>}

\* an update after which the entry is reloaded: its secret is dropped and a
\* new one is generated
OptionsUpdate_reloading ==
    /\ NoResponsePending
    /\ \E i \in 1 .. Len(config_entries), name \in UpdateNames,
          auth_type \in AuthTypes, passcode \in UpdatePasscodes, slug \in Slugs,
          cameras \in UpdateCameras :
        LET en == config_entries[i]
        IN  /\ options_errors(auth_type, Chars[passcode], Chars[slug],
                              slug_taken(slug, en.entry_id), cameras) = {}
            /\ config_entries' = [config_entries EXCEPT ![i] =
                    Entry(en.entry_id, slug, name, passcode, cameras, {})]
            /\ \E secret \in Secrets \ hass_data[en.entry_id] :
                    hass_data' = [hass_data EXCEPT ![en.entry_id] =
                                    IF @ = {} THEN {} ELSE {secret}]
    /\ UNCHANGED <<now, entry_state, states, jar, last, checked, sse,
                   frame, revoked, http, flows>>

\* CamPassOptionsFlow.async_step_init(user_input) for a share of the gate:
\* with errors the form is shown again, without the entry's data is replaced
\* (lines 204-216); no update listener is registered (__init__.py), so
\* nothing is reloaded and hass.data stays as it is
OptionsUpdate ==
    /\ NoResponsePending
    /\ \E i \in 1 .. Len(config_entries), name \in UpdateNames,
          auth_type \in AuthTypes, passcode \in UpdatePasscodes, slug \in Slugs,
          cameras \in UpdateCameras :
        LET en == config_entries[i]
        IN  /\ options_errors(auth_type, Chars[passcode], Chars[slug],
                              slug_taken(slug, en.entry_id), cameras) = {}
            /\ config_entries' = [config_entries EXCEPT ![i] =
                    Entry(en.entry_id, slug, name, passcode, cameras, {})]
    /\ UNCHANGED <<now, entry_state, hass_data, states, jar, last, checked, sse,
                   frame, revoked, http, flows>>

UpdateNext ==
    OptionsUpdate \/ StreamGet \/ Deliver \/ TurnOn \/ TurnOff \/ GateAdvance

SpecUpdate == SseInit /\ [][UpdateNext]_vars

\* the share's data differs from what it was when the credential was issued:
\* the passcode or the name was changed or the camera was taken out
Updated(en) ==
    /\ en.passcode # "4821" \/ en.name # "Garage"
    /\ en.cameras # <<"camera.garage">>

\* C25: whether a credential verifies depends on the token, the slug and the
\* share's secret only. Whatever updates of passcode, cameras and name the
\* share has had, the secret is the one the credential was signed with and
\* the credential verifies for its slug until its expiry; the stream endpoint
\* then checks the camera against the share's cameras as they are now: with
\* the toggle on, a camera of the set gets the stream and any other camera
\* gets 403, also one that was allowed when the credential was issued.
C25_UpdateKeepsCredentials ==
    /\ \A j \in jar : \A i \in 1 .. Len(config_entries) :
            LET en == config_entries[i]
            IN  en.slug = j.slug =>
                    /\ hass_data[en.entry_id] = {j.secret}
                    /\ \A secret \in hass_data[en.entry_id] :
                            verify_jwt_token(j.token, en.slug, secret, now)
                                <=> ~Expired(j)
    /\ \A en \in Shares :
            (Answered("stream") /\ Presented \in {j.token : j \in jar}
                    /\ Presented.slug = {en.slug} /\ ToggleOn(en)
                    /\ ~ \E e \in Presented.exp : e * TicksPerSec <= now) =>
                IF last.camera_id \in allowed_cameras(en)
                    THEN last.resp.status = 200
                    ELSE last.resp = text_response(403, "Camera not allowed")

\* C25 witness: after an update that changed the passcode and took the camera
\* out of the set, the credential issued before is presented for that camera
\* with the toggle on, and the answer is 403 for the camera, not 401
C25_Witness ==
    \E en \in Shares :
        /\ Answered("stream") /\ Presented \in {j.token : j \in jar}
        /\ Presented.slug = {en.slug} /\ ToggleOn(en)
        /\ Updated(en) /\ en.passcode # "4821"
        /\ last.camera_id = "camera.garage"
        /\ last.resp = text_response(403, "Camera not allowed")

====
